---- MODULE Spec2Model ----
(***************************************************************************)
(* Knowledge Flywheel: the schema guard with bounded self-correction       *)
(* (schema-validator.ts), the stage transforms (planner, executor,         *)
(* auditor, logic critic, polisher) and the orchestrator with its approval *)
(* gate and trust gate (flywheel.ts).                                      *)
(*                                                                         *)
(* A raw generator text is a sequence of tokens: a fence marker (three     *)
(* backticks), a language word, a newline, a piece of prose, or a complete *)
(* JSON document.  A state of the model is a suspension point of the       *)
(* program: pc names the call runFlywheel is awaiting and phase the call   *)
(* the current stage transform is awaiting.                                *)
(***************************************************************************)
EXTENDS Integers, Sequences, FiniteSets, TLC

VARIABLES
    opts,               \* FlywheelOptions of the run
    pc,                 \* the call runFlywheel awaits, or "done" / "aborted"
    phase,              \* the call the stage transform / the guard awaits
    schema,             \* schema argument of parseAgentOutputWithRetry
    maxRetries,         \* retryOpts.maxRetries (after defaulting)
    attempt,            \* loop variable of parseAgentOutputWithRetry
    lastText,           \* lastText of parseAgentOutputWithRetry
    issuesSummary,      \* issuesSummary of the latest failed attempt
    genCalls,           \* generateText calls issued by the current stage / guard
    verdicts,           \* history: one entry per validation attempt, TRUE = passed
    guardResult,        \* value returned by a direct parseAgentOutputWithRetry call
    spec,               \* const spec
    approvedSpec,       \* let approvedSpec
    artifact,           \* const artifact
    audit,              \* const audit
    logicReview,        \* const logicReview
    polished,           \* const polished
    autoMerged,         \* let autoMerged
    logicReviewPassed,  \* let logicReviewPassed
    failReasons,        \* const failReasons
    calls,              \* history: the collaborator calls of the run, in order
    result,             \* the FlywheelResult the promise resolved with
    error,              \* the message of the error the promise rejected with
    input,              \* arguments of the library call under way
    returned,           \* what the library call returned
    memory,             \* documents of the ChromaMemoryStore, per collection and id
    upserts,            \* the store.upsert calls of the last library call
    pending,            \* Promise.all of retrieveMulti: its results array, the settled calls
    cacheStore,         \* QueryCache.store: key -> entry
    now,                \* Date.now()
    setLog,             \* history: key -> time of the latest QueryCache.set
    runs                \* the local variables of each of two concurrent runFlywheel calls

guardVars == <<phase, schema, maxRetries, attempt, lastText, issuesSummary, genCalls, verdicts, guardResult>>
dataVars == <<spec, approvedSpec, artifact, audit, logicReview, polished, autoMerged, logicReviewPassed, failReasons>>
flywheelVars == <<opts, pc, guardVars, dataVars, calls, result, error>>
indexVars == <<input, returned, memory, upserts>>
retrieverVars == <<pending>>
cacheVars == <<cacheStore, now, setLog>>
runVars == <<runs>>
libVars == <<indexVars, retrieverVars, cacheVars, runVars>>
vars == <<flywheelVars, libVars>>

\* ---------------------------------------------------------------------------
\* Bounds of the model
\* ---------------------------------------------------------------------------

MaxFindings == 1
MaxIssues == 1
MaxCriteria == 1
MaxRetriesBound == 2
MaxTextLen == 4
MaxCorrLen == 1
MaxPayloadLen == 1
MaxDocTokens == 4
MaxInputs == 2
MaxClock == 4
MaxCollections == 2
MaxHits == 2

\* ---------------------------------------------------------------------------
\* Values
\* ---------------------------------------------------------------------------

Nil == [k |-> "Nil"]

SpecIds == {"s1", "s2"}
ArtifactIds == {"a1", "a2"}
Severity == {"critical", "high", "medium", "low", "info"}
Issues == {"criterion not covered"}

SeqsUpTo(S, n) == UNION {[1..m -> S] : m \in 0..n}

\* JSON documents a generator can emit (the fields the program reads).
TechSpecDocs == [k : {"TechSpec"}, id : SpecIds, acceptanceCriteria : 0..MaxCriteria]
CodeArtifactDocs == [k : {"CodeArtifact"}, id : ArtifactIds, nominateAsGolden : BOOLEAN]
AuditReportDocs == [k : {"AuditReport"}, passed : BOOLEAN, findings : SeqsUpTo(Severity, MaxFindings)]
LogicReviewDocs == [k : {"LogicReview"}, passed : BOOLEAN, issues : SeqsUpTo(Issues, MaxIssues)]
EmptyObjectDoc == [k |-> "Object"]

\* ---------------------------------------------------------------------------
\* Raw texts
\* ---------------------------------------------------------------------------

Fence == [t |-> "fence"]
Lang(name) == [t |-> "lang", name |-> name]
NL == [t |-> "nl"]
Prose == [t |-> "prose"]
Doc(d) == [t |-> "doc", doc |-> d]
\* The JSON text of document d written around one of its string values:
\* the text up to the inside of the string, and the text that ends it.
JsonOpen(d) == [t |-> "jsonOpen", doc |-> d]
JsonClose(d) == [t |-> "jsonClose", doc |-> d]
StringLegal == {"fence", "lang", "prose"}

FenceTags == {"json", "typescript", "ts"}

IsWhitespace(tok) == tok = NL

FencePositions(text) == {i \in 1..Len(text) : text[i] = Fence}

Min(S) == CHOOSE x \in S : \A y \in S : x <= y

\* String.prototype.trim
RECURSIVE TrimLeft(_)
TrimLeft(s) == IF s # <<>> /\ IsWhitespace(Head(s)) THEN TrimLeft(Tail(s)) ELSE s

RECURSIVE TrimRight(_)
TrimRight(s) ==
    IF s # <<>> /\ IsWhitespace(s[Len(s)]) THEN TrimRight(SubSeq(s, 1, Len(s) - 1)) ELSE s

Trim(s) == TrimRight(TrimLeft(s))

\* rawText.match(/```(?:json|typescript|ts)?\n?([\s\S]*?)```/i)?.[1]
\* NoMatch when the text holds no opening fence followed by a closing one.
NoMatch == <<[t |-> "nomatch"]>>

FenceMatch(text) ==
    LET F == FencePositions(text) IN
    IF Cardinality(F) < 2 THEN NoMatch
    ELSE LET open == Min(F)
             close == Min(F \ {open})
             afterTag == IF open + 1 < close /\ text[open + 1].t = "lang"
                            /\ text[open + 1].name \in FenceTags
                         THEN open + 2 ELSE open + 1
             afterNl == IF afterTag < close /\ text[afterTag] = NL
                        THEN afterTag + 1 ELSE afterTag
         IN  SubSeq(text, afterNl, close - 1)

\* (fenceMatch?.[1] ?? rawText).trim()
Cleaned(text) ==
    LET m == FenceMatch(text) IN Trim(IF m = NoMatch THEN text ELSE m)

\* JSON.parse: the cleaned text must be exactly one JSON document, written
\* whole or around a string value of characters legal in a JSON string.
JSONParse(cleaned) ==
    IF Len(cleaned) = 1 /\ cleaned[1].t = "doc"
    THEN [ok |-> TRUE, value |-> cleaned[1].doc]
    ELSE IF /\ Len(cleaned) >= 2
            /\ cleaned[1].t = "jsonOpen"
            /\ cleaned[Len(cleaned)].t = "jsonClose"
            /\ cleaned[Len(cleaned)].doc = cleaned[1].doc
            /\ \A i \in 2..(Len(cleaned) - 1) : cleaned[i].t \in StringLegal
         THEN [ok |-> TRUE, value |-> cleaned[1].doc]
         ELSE [ok |-> FALSE, value |-> Nil]

\* ---------------------------------------------------------------------------
\* Schemas (schema.safeParse)
\* ---------------------------------------------------------------------------

Schemas == {"TechSpec", "CodeArtifact", "AuditReport", "LogicReview"}

Ok(data) == [success |-> TRUE, data |-> data, issues |-> <<>>]
Fail(paths) == [success |-> FALSE, data |-> Nil, issues |-> paths]

\* TechSpecSchema: an object with at least one acceptance criterion.
TechSpecSchema(v) ==
    IF v.k # "TechSpec" THEN Fail(<<"id: Required">>)
    ELSE IF v.acceptanceCriteria < 1
         THEN Fail(<<"acceptanceCriteria: Array must contain at least 1 element(s)">>)
         ELSE Ok([id |-> v.id, acceptanceCriteria |-> v.acceptanceCriteria])

\* CodeArtifactSchema: files may be empty; the golden fields are optional.
CodeArtifactSchema(v) ==
    IF v.k # "CodeArtifact" THEN Fail(<<"id: Required">>)
    ELSE Ok([id |-> v.id, summary |-> "generated", nominateAsGolden |-> v.nominateAsGolden])

\* AuditReportSchema: passed is a boolean and findings a list of findings;
\* the schema does not relate the two.
AuditReportSchema(v) ==
    IF v.k # "AuditReport" THEN Fail(<<"id: Required">>)
    ELSE Ok([passed |-> v.passed, findings |-> v.findings])

\* LogicReviewSchema = z.object({ passed: z.boolean(), issues: z.array(z.string()).default([]) })
\* Unknown keys are stripped, so any object with a boolean passed is accepted.
LogicReviewSchema(v) ==
    IF v.k = "LogicReview" THEN Ok([passed |-> v.passed, issues |-> v.issues])
    ELSE IF v.k = "AuditReport" THEN Ok([passed |-> v.passed, issues |-> <<>>])
    ELSE Fail(<<"passed: Required">>)

SafeParse(s, v) ==
    CASE s = "TechSpec" -> TechSpecSchema(v)
      [] s = "CodeArtifact" -> CodeArtifactSchema(v)
      [] s = "AuditReport" -> AuditReportSchema(v)
      [] s = "LogicReview" -> LogicReviewSchema(v)

NotJsonSummary == <<"Output was not valid JSON">>

\* One iteration of the loop body of parseAgentOutputWithRetry up to the
\* `if (attempt === maxRetries)` test: extract, JSON.parse, schema.safeParse.
Validate(s, text) ==
    LET parsed == JSONParse(Cleaned(text)) IN
    IF ~parsed.ok THEN Fail(NotJsonSummary) ELSE SafeParse(s, parsed.value)

\* ---------------------------------------------------------------------------
\* Inputs: the texts a generator may answer with
\* ---------------------------------------------------------------------------

DefaultMaxRetries == 1

GuardPc == "parseAgentOutputWithRetry"
Stages == {"planFeature", "executeSpec", "auditArtifact", "runLogicReview", "polishOutput"}

SchemaOf(stage) ==
    CASE stage = "planFeature" -> "TechSpec"
      [] stage = "executeSpec" -> "CodeArtifact"
      [] stage = "auditArtifact" -> "AuditReport"
      [] stage = "runLogicReview" -> "LogicReview"
      [] stage = "polishOutput" -> "CodeArtifact"

SeverityRank(sev) ==
    CASE sev = "critical" -> 1
      [] sev = "high" -> 2
      [] sev = "medium" -> 3
      [] sev = "low" -> 4
      [] sev = "info" -> 5

\* The auditor's generator lists its findings most severe first.
MostSevereFirst(findings) ==
    \A i \in 1..(Len(findings) - 1) :
        SeverityRank(findings[i]) <= SeverityRank(findings[i + 1])

StageDocs(stage) ==
    {EmptyObjectDoc} \cup
    (CASE stage = "planFeature" -> TechSpecDocs
       [] stage = "executeSpec" ->
            {d \in CodeArtifactDocs : d.id = "a1" /\ ~d.nominateAsGolden}
       [] stage = "auditArtifact" ->
            {d \in AuditReportDocs : MostSevereFirst(d.findings)}
       [] stage = "runLogicReview" -> LogicReviewDocs
       [] stage = "polishOutput" -> CodeArtifactDocs)

\* A stage's generator answers with a bare document, a document in a
\* ```json fence, or prose.
StageTexts(stage) ==
    {<<Doc(d)>> : d \in StageDocs(stage)}
    \cup {<<Fence, Lang("json"), NL, Doc(d), NL, Fence>> :
            d \in StageDocs(stage) \ {EmptyObjectDoc}}
    \cup {<<Prose>>}

\* Direct calls of the guard: every token sequence up to a length.
GuardSchemas == {"TechSpec", "CodeArtifact"}
GuardDocs ==
    { [k |-> "TechSpec", id |-> "s1", acceptanceCriteria |-> 1],
      [k |-> "CodeArtifact", id |-> "a1", nominateAsGolden |-> FALSE] }
Alphabet == {Fence, Lang("json"), NL, Prose} \cup {Doc(d) : d \in GuardDocs}
\* JSON documents with a string value (a file's content, a description)
\* that holds prose, one fence, or a fenced code block.
StringContents ==
    {<<Prose>>, <<Fence, Prose>>, <<Fence, Prose, Fence>>, <<Fence, Lang("ts"), Prose, Fence>>}
QuotedFenceTexts ==
    {<<JsonOpen(d)>> \o inner \o <<JsonClose(d)>> : d \in GuardDocs, inner \in StringContents}
GuardTexts == SeqsUpTo(Alphabet, MaxTextLen) \cup QuotedFenceTexts
CorrTexts == SeqsUpTo(Alphabet, MaxCorrLen)

TextsFor(p) ==
    IF p = GuardPc THEN CorrTexts ELSE IF p \in Stages THEN StageTexts(p) ELSE {}

\* Direct calls of parseAgentOutput: every token sequence up to a length over
\* an alphabet that also has a language word the regex does not list, and
\* every Markdown code block (opening fence line, payload, closing fence
\* line) around a fence-free payload that does not begin with a language
\* word.
ParsePc == "parseAgentOutput"
OtherTags == {"javascript"}
NoTag == "none"
ParseAlphabet == Alphabet \cup {Lang(tag) : tag \in OtherTags}
Payloads ==
    {p \in SeqsUpTo(ParseAlphabet \ {Fence}, MaxPayloadLen) : p = <<>> \/ p[1].t # "lang"}
Wrap(tag, payload) ==
    <<Fence>> \o (IF tag = NoTag THEN <<>> ELSE <<Lang(tag)>>) \o <<NL>>
        \o payload \o <<NL, Fence>>
WrapTags == {NoTag} \cup FenceTags \cup OtherTags
ParseTexts ==
    SeqsUpTo(ParseAlphabet, MaxTextLen)
    \cup {Wrap(tag, p) : tag \in WrapTags, p \in Payloads}
    \cup QuotedFenceTexts

\* ---------------------------------------------------------------------------
\* Helpers for the control state
\* ---------------------------------------------------------------------------

Truthy(v) == v = "true"
BoolStr(b) == IF b THEN "true" ELSE "false"

NoError == [kind |-> "none", at |-> "none"]

IsHigh(sev) == sev = "critical" \/ sev = "high"
HighCount(findings) == Cardinality({i \in DOMAIN findings : IsHigh(findings[i])})

ResetGuard(ph, s, n) ==
    /\ phase' = ph
    /\ schema' = s
    /\ maxRetries' = DefaultMaxRetries
    /\ attempt' = 0
    /\ lastText' = <<>>
    /\ issuesSummary' = <<>>
    /\ genCalls' = n
    /\ verdicts' = <<>>
    /\ guardResult' = Nil

\* runFlywheel calls a stage transform and awaits it.  The stage runs to its
\* first await: the retrieval call, or (logic critic) the generateText call.
EnterFrom(history, stage, args) ==
    /\ pc' = stage
    /\ calls' = Append(history, [fn |-> stage, args |-> args])
    /\ IF stage = "runLogicReview"
       THEN ResetGuard("generate", SchemaOf(stage), 1)
       ELSE ResetGuard("retrieve", SchemaOf(stage), 0)
    /\ UNCHANGED <<result, error>>

Enter(stage, args) == EnterFrom(calls, stage, args)

\* The same after an awaited callback resolved (the event is recorded first).
EnterAfter(event, stage, args) == EnterFrom(Append(calls, event), stage, args)

\* await options.approveSpec(arg)
AwaitApproveSpec(gate, arg) ==
    /\ pc' = gate
    /\ calls' = Append(calls, [fn |-> "approveSpec", args |-> <<arg>>])
    /\ ResetGuard("-", "none", 0)
    /\ UNCHANGED <<result, error>>

\* Variant: a failure is swallowed and what exists so far is returned.
RejectPartial(kind) ==
    /\ pc' = IF pc = GuardPc THEN pc ELSE "done"
    /\ result' = [spec |-> spec, artifact |-> artifact, audit |-> audit, polished |-> polished]
    /\ UNCHANGED <<calls, error>>

\* The promise of runFlywheel (or of a direct guard call) rejects.
Reject(kind) ==
    /\ pc' = IF pc = GuardPc THEN pc ELSE "aborted"
    /\ error' = [kind |-> kind, at |-> pc]
    /\ UNCHANGED <<calls, result>>

\* throw new Error(`... ${failReasons.join("\n")}`)
RejectWith(kind, detail) ==
    /\ pc' = "aborted"
    /\ error' = [kind |-> kind, at |-> pc, detail |-> detail]
    /\ UNCHANGED <<calls, result>>

\* Variant: the error is caught and the stage issues its generator call again.
PropagateSwallowed(kind) ==
    /\ error' = [kind |-> kind, at |-> pc]
    /\ phase' = "generate"
    /\ UNCHANGED <<pc, calls, result>>
    /\ UNCHANGED <<schema, maxRetries, attempt, lastText, issuesSummary, genCalls, verdicts, guardResult>>
    /\ UNCHANGED dataVars

\* A collaborator call threw: nothing catches it.
Propagate(kind) ==
    /\ Reject(kind)
    /\ phase' = "thrown"
    /\ UNCHANGED <<schema, maxRetries, attempt, lastText, issuesSummary, genCalls, verdicts, guardResult>>
    /\ UNCHANGED dataVars

\* ---------------------------------------------------------------------------
\* runFlywheel: the code between two awaits
\* ---------------------------------------------------------------------------

\* Variant: the approval gate without the autoMerge test.
ApprovalGateAlways == opts.approveSpec

\* if (options.approveSpec && !options.autoMerge)
ApprovalGate == opts.approveSpec /\ ~Truthy(opts.autoMerge)

\* Variant: the halt check skipped when the trust gate is going to run.
HaltOnAuditUnlessAutoMerge(report) ==
    ~report.passed /\ opts.haltOnAuditFailure /\ ~Truthy(opts.autoMerge)

\* Variant: a failed audit halts whatever the option says.
HaltOnAuditAlways(report) == ~report.passed

\* if (!audit.passed && options.haltOnAuditFailure)
HaltOnAudit(report) == ~report.passed /\ opts.haltOnAuditFailure

\* Variant: one passing sentinel is enough.
PerfectPassEither(report, review) == report.passed \/ review.passed

\* const perfectPass = audit.passed && logicReview.passed
PerfectPass(report, review) == report.passed /\ review.passed

\* Variant: only the audit contributes a reason.
FailReasonsAuditOnly(report, review) ==
    IF ~report.passed
    THEN <<[sentinel |-> "Security Sentinel", detail |-> <<HighCount(report.findings)>>]>>
    ELSE <<>>

\* const failReasons: string[] = [] and its two pushes
FailReasons(report, review) ==
    (IF ~report.passed
     THEN <<[sentinel |-> "Security Sentinel", detail |-> <<HighCount(report.findings)>>]>>
     ELSE <<>>)
    \o (IF ~review.passed
        THEN <<[sentinel |-> "Logic Critic", detail |-> review.issues]>>
        ELSE <<>>)

\* const result: FlywheelResult = { ... }
\* Variant: the result carries the approved spec.
FlywheelResultApproved(p) ==
    IF opts.autoMerge # "undefined"
    THEN [spec |-> approvedSpec, artifact |-> artifact, audit |-> audit, polished |-> p,
          autoMerged |-> autoMerged, logicReviewPassed |-> logicReviewPassed]
    ELSE [spec |-> approvedSpec, artifact |-> artifact, audit |-> audit, polished |-> p]

FlywheelResult(p) ==
    LET base == [spec |-> spec, artifact |-> artifact, audit |-> audit, polished |-> p] IN
    IF opts.autoMerge # "undefined"
    THEN [spec |-> spec, artifact |-> artifact, audit |-> audit, polished |-> p,
          autoMerged |-> autoMerged, logicReviewPassed |-> logicReviewPassed]
    ELSE base

\* planFeature resolved with v: the approval gate or stage 3.
AfterPlan(v) ==
    /\ spec' = v
    /\ approvedSpec' = v
    /\ IF ApprovalGate
       THEN AwaitApproveSpec("approveSpec", v)
       ELSE Enter("executeSpec", <<v>>)
    /\ UNCHANGED <<artifact, audit, logicReview, polished, autoMerged, logicReviewPassed, failReasons>>

\* Variant: the orchestrator tags the artifact it keeps.
AfterExecuteAnnotates(a) ==
    /\ artifact' = [a EXCEPT !.summary = "annotated"]
    /\ Enter("auditArtifact", <<a>>)
    /\ UNCHANGED <<spec, approvedSpec, audit, logicReview, polished, autoMerged, logicReviewPassed, failReasons>>

\* executeSpec resolved with a: stage 4.
AfterExecute(a) ==
    /\ artifact' = a
    /\ Enter("auditArtifact", <<a>>)
    /\ UNCHANGED <<spec, approvedSpec, audit, logicReview, polished, autoMerged, logicReviewPassed, failReasons>>

\* Variant: the logic review runs whether or not autoMerge is set.
AfterAuditAlwaysReview(r) ==
    /\ audit' = r
    /\ IF HaltOnAudit(r)
       THEN /\ Reject("Audit failed")
            /\ ResetGuard("thrown", "none", 0)
       ELSE Enter("runLogicReview", <<approvedSpec, artifact>>)
    /\ UNCHANGED <<spec, approvedSpec, artifact, logicReview, polished, autoMerged, logicReviewPassed, failReasons>>

\* Variant: stage 5 is started with the audit report not yet assigned.
AfterAuditStale(r) ==
    /\ audit' = r
    /\ IF HaltOnAudit(r)
       THEN /\ Reject("Audit failed")
            /\ ResetGuard("thrown", "none", 0)
       ELSE IF Truthy(opts.autoMerge)
            THEN Enter("runLogicReview", <<approvedSpec, artifact>>)
            ELSE Enter("polishOutput", <<artifact, audit>>)
    /\ UNCHANGED <<spec, approvedSpec, artifact, logicReview, polished, autoMerged, logicReviewPassed, failReasons>>

\* auditArtifact resolved with r: the halt check, then the trust gate's
\* logic review when autoMerge is set, stage 5 otherwise.
AfterAudit(r) ==
    /\ audit' = r
    /\ IF HaltOnAudit(r)
       THEN /\ Reject("Audit failed")
            /\ ResetGuard("thrown", "none", 0)
       ELSE IF Truthy(opts.autoMerge)
            THEN Enter("runLogicReview", <<approvedSpec, artifact>>)
            ELSE Enter("polishOutput", <<artifact, r>>)
    /\ UNCHANGED <<spec, approvedSpec, artifact, logicReview, polished, autoMerged, logicReviewPassed, failReasons>>

\* runLogicReview resolved with review: the trust gate.
AfterLogicReview(review) ==
    /\ logicReview' = review
    /\ logicReviewPassed' = BoolStr(review.passed)
    /\ IF PerfectPass(audit, review)
       THEN /\ autoMerged' = TRUE
            /\ failReasons' = failReasons
            /\ Enter("polishOutput", <<artifact, audit>>)
       ELSE /\ autoMerged' = autoMerged
            /\ failReasons' = FailReasons(audit, review)
            /\ IF opts.approveSpec
               THEN AwaitApproveSpec("approveSpecFallback", approvedSpec)
               ELSE /\ RejectWith("Trust Gate failed", FailReasons(audit, review))
                    /\ ResetGuard("thrown", "none", 0)
    /\ UNCHANGED <<spec, approvedSpec, artifact, audit, polished>>

\* polishOutput resolved with p: the result is assembled and returned.
AfterPolish(p) ==
    /\ polished' = p
    /\ result' = FlywheelResult(p)
    /\ pc' = "done"
    /\ ResetGuard("-", "none", 0)
    /\ UNCHANGED <<spec, approvedSpec, artifact, audit, logicReview, autoMerged, logicReviewPassed, failReasons>>
    /\ UNCHANGED <<calls, error>>

\* ---------------------------------------------------------------------------
\* Stage transforms: the code after the guard returned
\* ---------------------------------------------------------------------------

ObservabilityWarning(a) == [a EXCEPT !.summary = "generated [observability-warning]"]

\* parseAgentOutputWithRetry returned data inside a stage transform.
StageReturns(data) ==
    CASE pc = "planFeature" -> AfterPlan(data)
      [] pc = "executeSpec" ->
            \* getStartupSeconds() > STARTUP_SLA_SECONDS: a new artifact with
            \* the warning appended to its summary is returned.
            \E slow \in BOOLEAN :
                AfterExecute(IF slow THEN ObservabilityWarning(data) ELSE data)
      [] pc = "auditArtifact" -> AfterAudit(data)
      [] pc = "runLogicReview" -> AfterLogicReview(data)
      [] pc = "polishOutput" ->
            IF data.nominateAsGolden
            THEN \* await indexDocuments([...])
                 /\ phase' = "index"
                 /\ guardResult' = data
                 /\ UNCHANGED <<schema, maxRetries, attempt, lastText, issuesSummary, genCalls, verdicts>>
                 /\ UNCHANGED <<pc, calls, result, error>>
                 /\ UNCHANGED dataVars
            ELSE AfterPolish(data)

\* ---------------------------------------------------------------------------
\* parseAgentOutputWithRetry: one iteration of its loop
\* ---------------------------------------------------------------------------

\* Variant: the loop bound written with < instead of <=.
LoopContinuesStrict(n) == n < maxRetries

\* for (let attempt = 0; attempt <= maxRetries; attempt++)
LoopContinues(n) == n <= maxRetries

\* Variant: the exhaustion test one attempt late.
RetriesExhaustedLate(n) == n = maxRetries + 1

\* Variant: the exhaustion test one attempt early.
RetriesExhaustedEarly(n) == n >= maxRetries - 1

\* if (attempt === maxRetries)
RetriesExhausted(n) == n = maxRetries

\* The iteration for text as attempt n, up to the next await, return or throw.
\* Variant: the diagnostic of the first failed attempt is kept.
DiagnosticOfFirst(r) == IF issuesSummary # <<>> THEN issuesSummary ELSE r.issues

\* let issuesSummary: declared inside the loop body, so it is the non-JSON
\* message or the schema issues of the current attempt.
Diagnostic(r) == r.issues

GuardIteration(text, n) ==
    LET r == Validate(schema, text) IN
    IF ~LoopContinues(n)
    THEN \* throw new Error(`[guardrail] ${label}: unreachable`)
         /\ Reject("unreachable")
         /\ phase' = "thrown"
         /\ attempt' = n
         /\ lastText' = text
         /\ UNCHANGED <<schema, maxRetries, issuesSummary, genCalls, verdicts, guardResult>>
         /\ UNCHANGED dataVars
    ELSE IF r.success
    THEN IF pc = GuardPc
         THEN /\ phase' = "returned"
              /\ guardResult' = r.data
              /\ attempt' = n
              /\ lastText' = text
              /\ issuesSummary' = <<>>
              /\ verdicts' = Append(verdicts, TRUE)
              /\ UNCHANGED <<schema, maxRetries, genCalls>>
              /\ UNCHANGED <<pc, calls, result, error>>
              /\ UNCHANGED dataVars
         ELSE StageReturns(r.data)
    ELSE /\ attempt' = n
         /\ lastText' = text
         /\ issuesSummary' = Diagnostic(r)
         /\ verdicts' = Append(verdicts, FALSE)
         /\ UNCHANGED <<schema, maxRetries, guardResult>>
         /\ UNCHANGED dataVars
         /\ IF RetriesExhausted(n)
            THEN /\ Reject("self-correction exhausted")
                 /\ phase' = "thrown"
                 /\ genCalls' = genCalls
            ELSE \* await generateText({ ..., prompt: correctionPrompt })
                 /\ phase' = "correct"
                 /\ genCalls' = genCalls + 1
                 /\ UNCHANGED <<pc, calls, result, error>>

\* ---------------------------------------------------------------------------
\* Actions: one per resumption of an await
\* ---------------------------------------------------------------------------

\* Variant: the knowledge base is re-seeded whatever the option says.
RunFlywheelAlwaysSeed ==
    /\ pc = "start"
    /\ pc' = "seedContext"
    /\ calls' = Append(calls, [fn |-> "seedContext", args |-> <<>>])
    /\ UNCHANGED <<guardVars, result, error>>
    /\ UNCHANGED <<opts, libVars, dataVars>>

\* runFlywheel(brief, options) up to its first await.
RunFlywheel ==
    /\ pc = "start"
    /\ IF opts.reseed
       THEN /\ pc' = "seedContext"
            /\ calls' = Append(calls, [fn |-> "seedContext", args |-> <<>>])
            /\ UNCHANGED <<guardVars, result, error>>
       ELSE Enter("planFeature", <<"brief">>)
    /\ UNCHANGED <<opts, libVars, dataVars>>

SeedContextReturns ==
    /\ pc = "seedContext"
    /\ Enter("planFeature", <<"brief">>)
    /\ UNCHANGED <<opts, libVars, dataVars>>

SeedContextThrows ==
    /\ pc = "seedContext"
    /\ Propagate("seedContext error")
    /\ UNCHANGED <<opts, libVars>>

\* The stage's retrieve / retrieveMulti calls returned: generateText is called.
RetrieveReturns ==
    /\ pc \in Stages
    /\ phase = "retrieve"
    /\ phase' = "generate"
    /\ genCalls' = genCalls + 1
    /\ UNCHANGED <<schema, maxRetries, attempt, lastText, issuesSummary, verdicts, guardResult>>
    /\ UNCHANGED <<opts, libVars, pc, dataVars, calls, result, error>>

RetrieveThrows ==
    /\ pc \in Stages
    /\ phase = "retrieve"
    /\ Propagate("retrieval error")
    /\ UNCHANGED <<opts, libVars>>

\* The stage's own generateText call returned text: the stage calls
\* parseAgentOutputWithRetry(schema, text, label, opts), which runs attempt 0.
GenerateReturns(text) ==
    /\ pc \in Stages
    /\ phase = "generate"
    /\ GuardIteration(text, 0)
    /\ UNCHANGED <<opts, libVars>>

GenerateThrows ==
    /\ pc \in Stages
    /\ phase = "generate"
    /\ Propagate("generator error")
    /\ UNCHANGED <<opts, libVars>>

\* A direct call parseAgentOutputWithRetry(schema, rawText, label, retryOpts).
ParseAgentOutputWithRetry ==
    /\ pc = GuardPc
    /\ phase = "called"
    /\ GuardIteration(lastText, 0)
    /\ UNCHANGED <<opts, libVars>>

\* Variant: the loop variable advanced by two per correction.
CorrectionReturnsSkip(text) ==
    /\ phase = "correct"
    /\ GuardIteration(text, attempt + 2)
    /\ UNCHANGED <<opts, libVars>>

\* The correction call returned: lastText = text; attempt++; next iteration.
CorrectionReturns(text) ==
    /\ phase = "correct"
    /\ GuardIteration(text, attempt + 1)
    /\ UNCHANGED <<opts, libVars>>

CorrectionThrows ==
    /\ phase = "correct"
    /\ Propagate("generator error")
    /\ UNCHANGED <<opts, libVars>>

\* approveSpec resolved with s (the spec it was given, or an amended one).
ApproveSpecReturns(s) ==
    /\ pc \in {"approveSpec", "approveSpecFallback"}
    /\ approvedSpec' = s
    /\ IF pc = "approveSpec"
       THEN EnterAfter([fn |-> "approveSpec.resolved", args |-> <<s>>], "executeSpec", <<s>>)
       ELSE EnterAfter([fn |-> "approveSpec.resolved", args |-> <<s>>], "polishOutput", <<artifact, audit>>)
    /\ UNCHANGED <<spec, artifact, audit, logicReview, polished, autoMerged, logicReviewPassed, failReasons>>
    /\ UNCHANGED <<opts, libVars>>

ApproveSpecThrows ==
    /\ pc \in {"approveSpec", "approveSpecFallback"}
    /\ Propagate("approval rejected")
    /\ UNCHANGED <<opts, libVars>>

\* polishOutput: the golden-example nomination was indexed.
IndexDocumentsReturns ==
    /\ pc = "polishOutput"
    /\ phase = "index"
    /\ AfterPolish(guardResult)
    /\ UNCHANGED <<opts, libVars>>

IndexDocumentsThrows ==
    /\ pc = "polishOutput"
    /\ phase = "index"
    /\ Propagate("indexDocuments error")
    /\ UNCHANGED <<opts, libVars>>

\* ---------------------------------------------------------------------------
\* Specifications
\* ---------------------------------------------------------------------------

\* What the approveSpec callback resolves with: the spec it was given, or
\* an amended one.
ApprovedSpecs ==
    IF pc \in {"approveSpec", "approveSpecFallback"}
    THEN {[approvedSpec EXCEPT !.id = i] : i \in SpecIds}
    ELSE {}

Options ==
    [reseed : BOOLEAN, haltOnAuditFailure : BOOLEAN,
     autoMerge : {"undefined", "false", "true"}, approveSpec : BOOLEAN]

\* The library objects are not in use.
IndexIdle == input = Nil /\ returned = Nil /\ memory = Nil /\ upserts = <<>>
RetrieverIdle == pending = Nil
CacheIdle == cacheStore = Nil /\ now = 0 /\ setLog = Nil
RunsIdle == runs = Nil

LibIdle == IndexIdle /\ RetrieverIdle /\ CacheIdle /\ RunsIdle

InitData ==
    /\ spec = Nil
    /\ approvedSpec = Nil
    /\ artifact = Nil
    /\ audit = Nil
    /\ logicReview = Nil
    /\ polished = Nil
    /\ autoMerged = FALSE
    /\ logicReviewPassed = "undefined"
    /\ failReasons = <<>>
    /\ calls = <<>>
    /\ result = Nil
    /\ error = NoError

\* A run of runFlywheel with any options.
Init ==
    /\ opts \in Options
    /\ pc = "start"
    /\ phase = "-"
    /\ schema = "none"
    /\ maxRetries = DefaultMaxRetries
    /\ attempt = 0
    /\ lastText = <<>>
    /\ issuesSummary = <<>>
    /\ genCalls = 0
    /\ verdicts = <<>>
    /\ guardResult = Nil
    /\ InitData
    /\ LibIdle

Next ==
    \/ RunFlywheel
    \/ SeedContextReturns
    \/ SeedContextThrows
    \/ RetrieveReturns
    \/ RetrieveThrows
    \/ \E text \in TextsFor(pc) : GenerateReturns(text)
    \/ GenerateThrows
    \/ \E text \in TextsFor(pc) : CorrectionReturns(text)
    \/ CorrectionThrows
    \/ \E s \in ApprovedSpecs : ApproveSpecReturns(s)
    \/ ApproveSpecThrows
    \/ IndexDocumentsReturns
    \/ IndexDocumentsThrows

Spec == Init /\ [][Next]_vars

\* A direct call of parseAgentOutputWithRetry with any schema, raw text and
\* retry budget.
\* Termination does not turn on how long the lists of a document are: the
\* generators of a fair run answer with documents of at most one criterion,
\* finding and issue.
ShortDoc(d) ==
    CASE d.k = "TechSpec" -> d.acceptanceCriteria <= 1
      [] d.k = "AuditReport" -> Len(d.findings) <= 1
      [] d.k = "LogicReview" -> Len(d.issues) <= 1
      [] OTHER -> TRUE

FairTextsFor(p) ==
    {text \in TextsFor(p) : \A i \in DOMAIN text : text[i].t = "doc" => ShortDoc(text[i].doc)}

FairNext ==
    \/ RunFlywheel
    \/ SeedContextReturns
    \/ SeedContextThrows
    \/ RetrieveReturns
    \/ RetrieveThrows
    \/ \E text \in FairTextsFor(pc) : GenerateReturns(text)
    \/ GenerateThrows
    \/ \E text \in FairTextsFor(pc) : CorrectionReturns(text)
    \/ CorrectionThrows
    \/ \E s \in ApprovedSpecs : ApproveSpecReturns(s)
    \/ ApproveSpecThrows
    \/ IndexDocumentsReturns
    \/ IndexDocumentsThrows

\* Every awaited call eventually resolves or rejects, and the code between
\* two awaits runs to its end: a step that is possible is eventually taken.
FairSpec == Init /\ [][FairNext]_vars /\ WF_vars(FairNext)

NoOptions == [reseed |-> FALSE, haltOnAuditFailure |-> FALSE, autoMerge |-> "undefined", approveSpec |-> FALSE]

GuardInit ==
    /\ opts = NoOptions
    /\ pc = GuardPc
    /\ phase = "called"
    /\ schema \in GuardSchemas
    /\ maxRetries \in 0..MaxRetriesBound
    /\ attempt = 0
    /\ lastText \in GuardTexts
    /\ issuesSummary = <<>>
    /\ genCalls = 0
    /\ verdicts = <<>>
    /\ guardResult = Nil
    /\ InitData
    /\ LibIdle

GuardNext ==
    \/ ParseAgentOutputWithRetry
    \/ \E text \in TextsFor(pc) : CorrectionReturns(text)
    \/ CorrectionThrows

GuardSpec == GuardInit /\ [][GuardNext]_vars

\* The same call with any integer budget the signature admits: maxRetries is
\* an unvalidated number, so a negative one is accepted as well.
RetryBudgets == (0 - 1)..MaxRetriesBound

AnyBudgetInit ==
    /\ opts = NoOptions
    /\ pc = GuardPc
    /\ phase = "called"
    /\ schema \in GuardSchemas
    /\ maxRetries \in RetryBudgets
    /\ attempt = 0
    /\ lastText \in GuardTexts
    /\ issuesSummary = <<>>
    /\ genCalls = 0
    /\ verdicts = <<>>
    /\ guardResult = Nil
    /\ InitData
    /\ LibIdle

AnyBudgetSpec == AnyBudgetInit /\ [][GuardNext]_vars

\* A direct call parseAgentOutput(schema, rawText, label): it returns the
\* typed value or throws.
ParseAgentOutput ==
    /\ pc = ParsePc
    /\ phase = "called"
    /\ LET r == Validate(schema, lastText) IN
       IF r.success
       THEN /\ phase' = "returned"
            /\ guardResult' = r.data
            /\ UNCHANGED <<issuesSummary, error>>
       ELSE /\ phase' = "thrown"
            /\ issuesSummary' = r.issues
            /\ error' = [kind |-> IF r.issues = NotJsonSummary
                                  THEN "non-JSON output"
                                  ELSE "Schema validation failed",
                         at |-> pc]
            /\ UNCHANGED guardResult
    /\ UNCHANGED <<schema, maxRetries, attempt, lastText, genCalls, verdicts>>
    /\ UNCHANGED <<opts, libVars, pc, dataVars, calls, result>>

ParseInit ==
    /\ opts = NoOptions
    /\ pc = ParsePc
    /\ phase = "called"
    /\ schema \in GuardSchemas
    /\ maxRetries = 0
    /\ attempt = 0
    /\ lastText \in ParseTexts
    /\ issuesSummary = <<>>
    /\ genCalls = 0
    /\ verdicts = <<>>
    /\ guardResult = Nil
    /\ InitData
    /\ LibIdle

ParseNext == ParseAgentOutput

ParseSpec == ParseInit /\ [][ParseNext]_vars

\* ---------------------------------------------------------------------------
\* indexer.ts: chunkText
\* ---------------------------------------------------------------------------

\* A document text is a sequence of tokens: Chars(n) is n characters that
\* are neither white space nor a heading marker, LineFeed is "\n" and
\* HeadingMark is "# " (a heading when it stands at the start of a line).
Chars(n) == [t |-> "chars", len |-> n]
LineFeed == [t |-> "lf", len |-> 1]
HeadingMark == [t |-> "hd", len |-> 2]

MAX_CHUNK_CHARS == 1500

RECURSIVE TextLength(_)
TextLength(text) == IF text = <<>> THEN 0 ELSE Head(text).len + TextLength(Tail(text))

\* text.slice(0, n) and text.slice(n)
RECURSIVE Take(_, _)
Take(text, n) ==
    IF n <= 0 \/ text = <<>> THEN <<>>
    ELSE IF Head(text).len <= n
         THEN <<Head(text)>> \o Take(Tail(text), n - Head(text).len)
         ELSE <<[Head(text) EXCEPT !.t = IF @ = "hd" THEN "chars" ELSE @, !.len = n]>>

RECURSIVE Drop(_, _)
Drop(text, n) ==
    IF n <= 0 \/ text = <<>> THEN text
    ELSE IF Head(text).len <= n
         THEN Drop(Tail(text), n - Head(text).len)
         ELSE <<[Head(text) EXCEPT !.t = IF @ = "hd" THEN "chars" ELSE @,
                                   !.len = @ - n]>> \o Tail(text)

\* String.prototype.trim on a document text: line feeds go; of a trailing
\* "# " the space goes.
RECURSIVE TrimTextLeft(_)
TrimTextLeft(text) ==
    IF text # <<>> /\ Head(text) = LineFeed THEN TrimTextLeft(Tail(text)) ELSE text

RECURSIVE TrimTextRight(_)
TrimTextRight(text) ==
    IF text = <<>> THEN text
    ELSE LET last == text[Len(text)]
             front == SubSeq(text, 1, Len(text) - 1)
         IN  IF last = LineFeed THEN TrimTextRight(front)
             ELSE IF last = HeadingMark THEN front \o <<Chars(1)>>
             ELSE text

TrimText(text) == TrimTextRight(TrimTextLeft(text))

\* /(?=^#{1,4} )/m matches before a heading marker at the start of a line.
IsHeadingAt(text, i) == text[i] = HeadingMark /\ (i = 1 \/ text[i - 1] = LineFeed)

\* text.split(sep), cutting before the positions in cuts (ascending).
RECURSIVE SplitBefore(_, _, _)
SplitBefore(text, from, cuts) ==
    IF cuts = {} THEN <<SubSeq(text, from, Len(text))>>
    ELSE LET c == Min(cuts) IN
         <<SubSeq(text, from, c - 1)>> \o SplitBefore(text, c, cuts \ {c})

\* trimmed.split(/(?=^#{1,4} )/m).filter(Boolean)
HeadingSections(text) ==
    SplitBefore(text, 1, {i \in 2..Len(text) : IsHeadingAt(text, i)})

\* trimmed.split(/\n\n+/).filter(Boolean): a separator is a maximal run of
\* two or more line feeds.
RECURSIVE SplitParagraphs(_, _)
SplitParagraphs(text, acc) ==
    IF text = <<>> THEN (IF acc = <<>> THEN <<>> ELSE <<acc>>)
    ELSE IF Len(text) >= 2 /\ text[1] = LineFeed /\ text[2] = LineFeed
         THEN (IF acc = <<>> THEN <<>> ELSE <<acc>>)
              \o SplitParagraphs(TrimTextLeft(text), <<>>)
         ELSE SplitParagraphs(Tail(text), Append(acc, Head(text)))

Paragraphs(text) == SplitParagraphs(text, <<>>)

\* Variant: an over-long paragraph is kept whole.
FitParagraphWhole(para) == para

\* p.length <= MAX_CHUNK_CHARS ? p : p.slice(0, MAX_CHUNK_CHARS)
FitParagraph(para) ==
    IF TextLength(para) <= MAX_CHUNK_CHARS THEN para ELSE Take(para, MAX_CHUNK_CHARS)

\* for (const p of paragraphs) { ... } if (current) chunks.push(current)
RECURSIVE PackParagraphs(_, _, _)
PackParagraphs(paras, chunks, current) ==
    IF paras = <<>>
    THEN (IF current # <<>> THEN Append(chunks, current) ELSE chunks)
    ELSE LET para == Head(paras) IN
         IF TextLength(current) + 2 + TextLength(para) <= MAX_CHUNK_CHARS
         THEN PackParagraphs(Tail(paras), chunks,
                  IF current # <<>> THEN current \o <<LineFeed, LineFeed>> \o para ELSE para)
         ELSE PackParagraphs(Tail(paras),
                  IF current # <<>> THEN Append(chunks, current) ELSE chunks,
                  FitParagraph(para))

\* for (let i = 0; i < trimmed.length; i += MAX_CHUNK_CHARS) chunks.push(slice)
RECURSIVE HardCut(_)
HardCut(text) ==
    IF text = <<>> THEN <<>>
    ELSE <<Take(text, MAX_CHUNK_CHARS)>> \o HardCut(Drop(text, MAX_CHUNK_CHARS))

RECURSIVE ChunkText(_)
RECURSIVE ChunkSections(_)

\* headingSections.flatMap((s) => chunkText(s.trim()))
ChunkSections(sections) ==
    IF sections = <<>> THEN <<>>
    ELSE ChunkText(TrimText(Head(sections))) \o ChunkSections(Tail(sections))

ChunkText(text) ==
    LET trimmed == TrimText(text) IN
    IF TextLength(trimmed) <= MAX_CHUNK_CHARS THEN <<trimmed>>
    ELSE IF Len(HeadingSections(trimmed)) > 1 THEN ChunkSections(HeadingSections(trimmed))
    ELSE IF Len(Paragraphs(trimmed)) > 1 THEN PackParagraphs(Paragraphs(trimmed), <<>>, <<>>)
    ELSE HardCut(trimmed)

\* Inputs: every token sequence up to a length, with runs of characters
\* whose lengths fall on both sides of the chunk limit.
RunLengths == {1, 1498, 1499, 1501, 3001}
DocAlphabet == {LineFeed, HeadingMark} \cup {Chars(n) : n \in RunLengths}
DocTexts == SeqsUpTo(DocAlphabet, MaxDocTokens)

\* Every variable but input and returned.
chunkFrame == <<flywheelVars, memory, upserts, retrieverVars, cacheVars, runVars>>

\* The value a library call returned.
Returned(v) == [k |-> "returned", v |-> v]

\* A call chunkText(text).
ChunkTextCall ==
    /\ pc = "chunkText"
    /\ returned = Nil
    /\ returned' = Returned(ChunkText(input))
    /\ UNCHANGED <<input, chunkFrame>>

\* The orchestrator is not running.
FlywheelIdle(call) ==
    /\ opts = NoOptions
    /\ pc = call
    /\ phase = "-"
    /\ schema = "none"
    /\ maxRetries = DefaultMaxRetries
    /\ attempt = 0
    /\ lastText = <<>>
    /\ issuesSummary = <<>>
    /\ genCalls = 0
    /\ verdicts = <<>>
    /\ guardResult = Nil
    /\ InitData

ChunkInit ==
    /\ FlywheelIdle("chunkText")
    /\ input \in DocTexts
    /\ returned = Nil
    /\ memory = Nil
    /\ upserts = <<>>
    /\ RetrieverIdle /\ CacheIdle /\ RunsIdle

ChunkNext == ChunkTextCall

ChunkSpec == ChunkInit /\ [][ChunkNext]_vars

\* ---------------------------------------------------------------------------
\* pii-filter.ts, chroma-store.ts, indexer.ts: indexDocuments,
\* search-tools.ts: writeVulnerability
\* ---------------------------------------------------------------------------

\* A substring one of the PATTERNS matches, and the placeholder put in its
\* place.
PiiKinds == {"email", "ssn"}
Pii(kind) == [t |-> "pii", kind |-> kind, len |-> IF kind = "email" THEN 6 ELSE 11]
Redacted(kind) == [t |-> "redacted", kind |-> kind, len |-> IF kind = "email" THEN 16 ELSE 14]

\* sanitize(text): every match of every pattern is replaced.
Sanitize(text) ==
    [i \in DOMAIN text |-> IF text[i].t = "pii" THEN Redacted(text[i].kind) ELSE text[i]]

COLLECTIONS ==
    [CODE |-> "code", VULNERABILITIES |-> "vulnerabilities", DEFAULT |-> "default"]

\* Document ids: a given id, a given id with a chunk suffix, a content hash
\* (sha256 is taken as injective).
GivenId(id) == [id |-> id]
ChunkId(id, i) == [id |-> id, chunk |-> i]
ContentHash(chunk) == [hash |-> chunk]

MemoryDocument(id, content) == [id |-> id, content |-> content]

\* The documents indexDocuments builds from one input.
DocumentsOf(in) ==
    LET chunks == ChunkText(Sanitize(in.content)) IN
    [i \in DOMAIN chunks |->
        MemoryDocument(
            IF in.id # "undefined"
            THEN (IF Len(chunks) > 1 THEN ChunkId(in.id, i - 1) ELSE GivenId(in.id))
            ELSE ContentHash(chunks[i]),
            chunks[i])]

\* for (const input of inputs) { ... documents.push(...) }
RECURSIVE Documents(_)
Documents(inputs) ==
    IF inputs = <<>> THEN <<>> ELSE DocumentsOf(Head(inputs)) \o Documents(Tail(inputs))

\* inputs[0]?.collection ?? COLLECTIONS.DEFAULT
TargetCollection(inputs) ==
    IF inputs # <<>> /\ Head(inputs).collection # "undefined"
    THEN Head(inputs).collection
    ELSE COLLECTIONS.DEFAULT

\* col.upsert: a document replaces the stored one of the same collection
\* and id, later documents of a batch winning.
RECURSIVE Upsert(_, _, _)
Upsert(mem, collection, documents) ==
    IF documents = <<>> THEN mem
    ELSE LET d == Head(documents) IN
         Upsert({m \in mem : ~(m.collection = collection /\ m.id = d.id)}
                    \cup {[collection |-> collection, id |-> d.id, content |-> d.content]},
                collection, Tail(documents))

\* Inputs of indexDocuments.
IndexContents ==
    { <<>>,
      <<Pii("email")>>,
      <<Chars(1498), LineFeed, LineFeed, Pii("ssn")>> }
IndexInputs ==
    [content : IndexContents, id : {"undefined", "d1"}, collection : {"undefined", COLLECTIONS.CODE}]
InputLists == SeqsUpTo(IndexInputs, MaxInputs)

\* Inputs of writeVulnerability.
VulnerabilityArgs ==
    [id : {"v1"},
     description : {<<Chars(1)>>, <<Pii("email")>>},
     location : {"undefined", "set"},
     suggestion : {"undefined", "set"}]

\* [`Category: ...`, `Severity: ...`, `Description: ...`, ...].filter(Boolean).join("\n")
VulnerabilityContent(a) ==
    <<Chars(10), LineFeed, Chars(10), LineFeed, Chars(13)>> \o a.description
        \o (IF a.location = "set" THEN <<LineFeed, Chars(10)>> ELSE <<>>)
        \o (IF a.suggestion = "set" THEN <<LineFeed, Chars(12)>> ELSE <<>>)

\* Variant: upsert is called with an empty batch too.
IndexDocumentsAlwaysUpsert ==
    LET documents == Documents(input)
        collection == TargetCollection(input)
    IN  /\ pc = "indexDocuments"
        /\ memory' = Upsert(memory, collection, documents)
        /\ upserts' = <<collection>>
        /\ returned' = Returned([indexed |-> Len(documents), skipped |-> 0,
                                 collection |-> collection])
        /\ UNCHANGED <<input, flywheelVars, retrieverVars, cacheVars, runVars>>

\* A call indexDocuments(inputs).
IndexDocuments ==
    LET documents == Documents(input)
        collection == TargetCollection(input)
    IN  /\ pc = "indexDocuments"
        /\ IF documents = <<>>
           THEN /\ returned' = Returned([indexed |-> 0, skipped |-> Len(input),
                                         collection |-> collection])
                /\ upserts' = <<>>
                /\ UNCHANGED memory
           ELSE /\ memory' = Upsert(memory, collection, documents)
                /\ upserts' = <<collection>>
                /\ returned' = Returned([indexed |-> Len(documents), skipped |-> 0,
                                         collection |-> collection])
        /\ UNCHANGED <<input, flywheelVars, retrieverVars, cacheVars, runVars>>

\* A call of the writeVulnerability tool.
WriteVulnerability(a) ==
    /\ pc = "indexDocuments"
    /\ memory' = Upsert(memory, COLLECTIONS.VULNERABILITIES,
                        <<MemoryDocument(GivenId(a.id), VulnerabilityContent(a))>>)
    /\ upserts' = <<COLLECTIONS.VULNERABILITIES>>
    /\ returned' = Returned([success |-> TRUE, id |-> a.id])
    /\ UNCHANGED <<input, flywheelVars, retrieverVars, cacheVars, runVars>>

IndexInit ==
    /\ FlywheelIdle("indexDocuments")
    /\ input \in InputLists
    /\ returned = Nil
    /\ memory = {}
    /\ upserts = <<>>
    /\ RetrieverIdle /\ CacheIdle /\ RunsIdle

IndexNext ==
    \/ IndexDocuments
    \/ \E a \in VulnerabilityArgs : WriteVulnerability(a)

IndexSpec == IndexInit /\ [][IndexNext]_vars

\* ---------------------------------------------------------------------------
\* retriever.ts: retrieve, retrieveMulti
\* ---------------------------------------------------------------------------

\* Scores are in tenths.
DefaultMinScore == 3
HitIds == {"a", "b"}
Scores == {2, 5, 9}
Hits == [id : HitIds, score : Scores]

\* What store.query answers for a collection: distinct ids, nearest first.
StoreAnswers ==
    {b \in SeqsUpTo(Hits, MaxHits) :
        /\ \A i, j \in DOMAIN b : i < j => b[i].id # b[j].id /\ b[i].score >= b[j].score}

QueryCollections == {"plans", "code"}

\* retrieve(query, { collection, topK }): results.filter((r) => r.score >= minScore)
Retrieve(answers, collection) ==
    SelectSeq(answers[collection], LAMBDA r : r.score >= DefaultMinScore)

\* for (const batch of results) for (const result of batch) if (!seen.has(result.id)) ...
RECURSIVE Dedupe(_, _)
Dedupe(flat, merged) ==
    IF flat = <<>> THEN merged
    ELSE Dedupe(Tail(flat),
                IF \E i \in DOMAIN merged : merged[i].id = Head(flat).id
                THEN merged ELSE Append(merged, Head(flat)))

RECURSIVE Flatten(_)
Flatten(batches) == IF batches = <<>> THEN <<>> ELSE Head(batches) \o Flatten(Tail(batches))

\* merged.sort((a, b) => b.score - a.score): a stable sort, highest score
\* first.
RECURSIVE InsertByScore(_, _)
InsertByScore(sorted, r) ==
    IF sorted = <<>> THEN <<r>>
    ELSE IF Head(sorted).score >= r.score
         THEN <<Head(sorted)>> \o InsertByScore(Tail(sorted), r)
         ELSE <<r>> \o sorted

RECURSIVE SortByScore(_, _)
SortByScore(merged, sorted) ==
    IF merged = <<>> THEN sorted
    ELSE SortByScore(Tail(merged), InsertByScore(sorted, Head(merged)))

Merge(batches) == SortByScore(Dedupe(Flatten(batches), <<>>), <<>>)

\* Variant: a settled promise takes the first free place of the array.
SettleInArrivalOrder(results, i, batch) ==
    LET free == Min({j \in DOMAIN results : results[j] = Nil})
    IN  [results EXCEPT ![free] = [k |-> "batch", v |-> batch]]

\* Promise.all keeps the value of the i-th promise at index i.
Settle(results, i, batch) == [results EXCEPT ![i] = [k |-> "batch", v |-> batch]]

\* The i-th retrieve call resolves.
RetrieveResolves(i) ==
    /\ pc = "retrieveMulti"
    /\ returned = Nil
    /\ i \in DOMAIN pending.results
    /\ i \notin pending.settled
    /\ pending' = [results |-> Settle(pending.results, i,
                                       Retrieve(input.answers, input.collections[i])),
                    settled |-> pending.settled \cup {i}]
    /\ UNCHANGED <<input, returned, memory, upserts, flywheelVars, cacheVars, runVars>>

\* The i-th retrieve call rejects: Promise.all rejects with its error.
RetrieveRejects(i) ==
    /\ pc = "retrieveMulti"
    /\ returned = Nil
    /\ i \in DOMAIN pending.results
    /\ i \notin pending.settled
    /\ returned' = [k |-> "rejected", by |-> i]
    /\ UNCHANGED <<input, pending, memory, upserts, flywheelVars, cacheVars, runVars>>

\* Every retrieve has resolved: merge, sort and return.
RetrieveMultiReturns ==
    /\ pc = "retrieveMulti"
    /\ returned = Nil
    /\ pending.settled = DOMAIN pending.results
    /\ returned' = Returned(Merge([i \in DOMAIN pending.results |-> pending.results[i].v]))
    /\ UNCHANGED <<input, pending, memory, upserts, flywheelVars, cacheVars, runVars>>

RetrieveInit ==
    /\ FlywheelIdle("retrieveMulti")
    /\ \E collections \in SeqsUpTo(QueryCollections, MaxCollections),
          answers \in [QueryCollections -> StoreAnswers] :
          /\ input = [collections |-> collections, answers |-> answers]
          /\ pending = [results |-> [i \in DOMAIN collections |-> Nil], settled |-> {}]
    /\ returned = Nil
    /\ memory = Nil
    /\ upserts = <<>>
    /\ CacheIdle /\ RunsIdle

RetrieveNext ==
    \/ \E i \in 1..MaxCollections : RetrieveResolves(i)
    \/ \E i \in 1..MaxCollections : RetrieveRejects(i)
    \/ RetrieveMultiReturns

RetrieveSpec == RetrieveInit /\ [][RetrieveNext]_vars

\* ---------------------------------------------------------------------------
\* flywheel.ts: two runFlywheel calls whose steps interleave
\* ---------------------------------------------------------------------------

RunIds == {1, 2}

\* const runId = randomUUID(): no two runs draw the same one.
RunId(r) == [uuid |-> r]

\* The brief a run was called with, and the value a collaborator returned to
\* a run, marked with the run whose call produced it.
Brief(r) == [fn |-> "brief", by |-> r]
Produced(fn, r) == [fn |-> fn, by |-> r]
Verdict(fn, r, passed) == [fn |-> fn, by |-> r, passed |-> passed]

NoLocals ==
    [spec |-> Nil, approvedSpec |-> Nil, artifact |-> Nil, audit |-> Nil, polished |-> Nil]

\* Variant: the consts and lets of runFlywheel are module-level, shared by
\* every run.
ActivationShared(r) == 1

\* The consts and lets of runFlywheel belong to the activation of the run.
Activation(r) == r

Locals(r) == runs.locals[Activation(r)]

\* The run issues the call fn(args) and suspends on it.
Issue(c, fn, args) ==
    [c EXCEPT !.pc = fn, !.handed = Append(@, [fn |-> fn, args |-> args])]

ThrowIn(c) == [c EXCEPT !.pc = "aborted"]

SetRun(r, c, l) ==
    runs' = [ctl |-> [runs.ctl EXCEPT ![r] = c],
             locals |-> [runs.locals EXCEPT ![Activation(r)] = l]]

runFrame == <<flywheelVars, indexVars, retrieverVars, cacheVars>>

\* runFlywheel(brief, options) is called: stage 1 or stage 2 is awaited.
RunStarts(r) ==
    LET c == runs.ctl[r] IN
    /\ pc = "runs"
    /\ c.pc = "new"
    /\ SetRun(r, IF c.opts.reseed THEN Issue(c, "seedContext", <<>>)
                  ELSE Issue(c, "planFeature", <<Brief(r)>>),
              Locals(r))
    /\ UNCHANGED runFrame

RunSeedContextReturns(r) ==
    LET c == runs.ctl[r] IN
    /\ pc = "runs"
    /\ c.pc = "seedContext"
    /\ SetRun(r, Issue(c, "planFeature", <<Brief(r)>>), Locals(r))
    /\ UNCHANGED runFrame

RunPlanFeatureReturns(r) ==
    LET c == runs.ctl[r]
        v == Produced("planFeature", r)
    IN  /\ pc = "runs"
        /\ c.pc = "planFeature"
        /\ SetRun(r,
                  IF c.opts.approveSpec /\ ~Truthy(c.opts.autoMerge)
                  THEN Issue(c, "approveSpec", <<v>>)
                  ELSE Issue(c, "executeSpec", <<v>>),
                  [Locals(r) EXCEPT !.spec = v, !.approvedSpec = v])
        /\ UNCHANGED runFrame

RunApproveSpecReturns(r) ==
    LET c == runs.ctl[r]
        v == Produced("approveSpec", r)
    IN  /\ pc = "runs"
        /\ c.pc = "approveSpec"
        /\ SetRun(r, Issue(c, "executeSpec", <<v>>), [Locals(r) EXCEPT !.approvedSpec = v])
        /\ UNCHANGED runFrame

RunExecuteSpecReturns(r) ==
    LET c == runs.ctl[r]
        v == Produced("executeSpec", r)
    IN  /\ pc = "runs"
        /\ c.pc = "executeSpec"
        /\ SetRun(r, Issue(c, "auditArtifact", <<v>>), [Locals(r) EXCEPT !.artifact = v])
        /\ UNCHANGED runFrame

RunAuditArtifactReturns(r, passed) ==
    LET c == runs.ctl[r]
        l == Locals(r)
        v == Verdict("auditArtifact", r, passed)
    IN  /\ pc = "runs"
        /\ c.pc = "auditArtifact"
        /\ SetRun(r,
                  IF ~passed /\ c.opts.haltOnAuditFailure THEN ThrowIn(c)
                  ELSE IF Truthy(c.opts.autoMerge)
                       THEN Issue(c, "runLogicReview", <<l.approvedSpec, l.artifact>>)
                       ELSE Issue(c, "polishOutput", <<l.artifact, v>>),
                  [l EXCEPT !.audit = v])
        /\ UNCHANGED runFrame

RunLogicReviewReturns(r, passed) ==
    LET c == runs.ctl[r]
        l == Locals(r)
    IN  /\ pc = "runs"
        /\ c.pc = "runLogicReview"
        /\ SetRun(r,
                  IF l.audit.passed /\ passed THEN Issue(c, "polishOutput", <<l.artifact, l.audit>>)
                  ELSE IF c.opts.approveSpec
                       THEN Issue(c, "approveSpec (fallback)", <<l.approvedSpec>>)
                       ELSE ThrowIn(c),
                  l)
        /\ UNCHANGED runFrame

RunFallbackReturns(r) ==
    LET c == runs.ctl[r]
        l == Locals(r)
    IN  /\ pc = "runs"
        /\ c.pc = "approveSpec (fallback)"
        /\ SetRun(r, Issue(c, "polishOutput", <<l.artifact, l.audit>>),
                  [l EXCEPT !.approvedSpec = Produced("approveSpec", r)])
        /\ UNCHANGED runFrame

RunPolishOutputReturns(r) ==
    LET c == runs.ctl[r]
        l == Locals(r)
        v == Produced("polishOutput", r)
    IN  /\ pc = "runs"
        /\ c.pc = "polishOutput"
        /\ SetRun(r,
                  [c EXCEPT !.pc = "done",
                            !.result = [runId |-> RunId(r), brief |-> Brief(r), spec |-> l.spec,
                                        artifact |-> l.artifact, audit |-> l.audit,
                                        polished |-> v]],
                  [l EXCEPT !.polished = v])
        /\ UNCHANGED runFrame

\* The call a run awaits throws: the run rejects.
RunAwaitedThrows(r) ==
    LET c == runs.ctl[r] IN
    /\ pc = "runs"
    /\ c.pc \notin {"new", "done", "aborted"}
    /\ SetRun(r, ThrowIn(c), Locals(r))
    /\ UNCHANGED runFrame

TwoRunInit ==
    /\ FlywheelIdle("runs")
    /\ IndexIdle /\ RetrieverIdle /\ CacheIdle
    /\ \E o \in [RunIds -> Options] :
          runs = [ctl |-> [r \in RunIds |->
                              [pc |-> "new", opts |-> o[r], handed |-> <<>>, result |-> Nil]],
                  locals |-> [r \in RunIds |-> NoLocals]]

TwoRunNext ==
    \E r \in RunIds :
        \/ RunStarts(r)
        \/ RunSeedContextReturns(r)
        \/ RunPlanFeatureReturns(r)
        \/ RunApproveSpecReturns(r)
        \/ RunExecuteSpecReturns(r)
        \/ \E passed \in BOOLEAN : RunAuditArtifactReturns(r, passed)
        \/ \E passed \in BOOLEAN : RunLogicReviewReturns(r, passed)
        \/ RunFallbackReturns(r)
        \/ RunPolishOutputReturns(r)
        \/ RunAwaitedThrows(r)

TwoRunSpec == TwoRunInit /\ [][TwoRunNext]_vars

\* ---------------------------------------------------------------------------
\* query-cache.ts: QueryCache
\* ---------------------------------------------------------------------------

\* QueryCache.key(collection, query, topK, minScore), and result lists.
CacheKeys == {"k1", "k2"}
CachedResults == {"r1", "r2"}
Ttls == {0, 2}
Undefined == "undefined"

\* Variant: an entry counts as expired at its expiry time already.
ExpiredAtExpiry(entry, t) == t >= entry.expiresAt

\* Date.now() > entry.expiresAt
Expired(entry, t) == t > entry.expiresAt

cacheFrame == <<flywheelVars, memory, upserts, retrieverVars, runVars>>

\* get(collection, query, topK, minScore)
CacheGet(k) ==
    LET entry == cacheStore.store[k] IN
    /\ pc = "queryCache"
    /\ input' = [op |-> "get", key |-> k]
    /\ IF entry = Nil
       THEN /\ returned' = Returned(Undefined)
            /\ UNCHANGED cacheStore
       ELSE IF Expired(entry, now)
       THEN /\ cacheStore' = [cacheStore EXCEPT !.store[k] = Nil]
            /\ returned' = Returned(Undefined)
       ELSE /\ returned' = Returned(entry.results)
            /\ UNCHANGED cacheStore
    /\ UNCHANGED <<now, setLog, cacheFrame>>

\* set(collection, query, topK, minScore, results)
CacheSet(k, results) ==
    /\ pc = "queryCache"
    /\ input' = [op |-> "set", key |-> k]
    /\ returned' = Returned(Undefined)
    /\ cacheStore' = [cacheStore EXCEPT
            !.store[k] = [results |-> results, expiresAt |-> now + cacheStore.ttlMs]]
    /\ setLog' = [setLog EXCEPT ![k] = [at |-> now, results |-> results, cleared |-> FALSE]]
    /\ UNCHANGED <<now, cacheFrame>>

\* evictExpired()
EvictExpired ==
    /\ pc = "queryCache"
    /\ input' = [op |-> "evictExpired"]
    /\ returned' = Returned(Undefined)
    /\ cacheStore' = [cacheStore EXCEPT
            !.store = [k \in CacheKeys |->
                          IF @[k] # Nil /\ Expired(@[k], now) THEN Nil ELSE @[k]]]
    /\ UNCHANGED <<now, setLog, cacheFrame>>

\* clear()
CacheClear ==
    /\ pc = "queryCache"
    /\ input' = [op |-> "clear"]
    /\ returned' = Returned(Undefined)
    /\ cacheStore' = [cacheStore EXCEPT !.store = [k \in CacheKeys |-> Nil]]
    /\ setLog' = [k \in CacheKeys |->
                      IF setLog[k] = Nil THEN Nil ELSE [setLog[k] EXCEPT !.cleared = TRUE]]
    /\ UNCHANGED <<now, cacheFrame>>

\* Time passes between two calls.
ClockTicks ==
    /\ pc = "queryCache"
    /\ now < MaxClock
    /\ now' = now + 1
    /\ UNCHANGED <<input, returned, cacheStore, setLog, cacheFrame>>

CacheInit ==
    /\ FlywheelIdle("queryCache")
    /\ input = Nil /\ returned = Nil /\ memory = Nil /\ upserts = <<>>
    /\ RetrieverIdle /\ RunsIdle
    /\ \E ttl \in Ttls : cacheStore = [ttlMs |-> ttl, store |-> [k \in CacheKeys |-> Nil]]
    /\ now = 0
    /\ setLog = [k \in CacheKeys |-> Nil]

CacheNext ==
    \/ \E k \in CacheKeys : CacheGet(k)
    \/ \E k \in CacheKeys, results \in CachedResults : CacheSet(k, results)
    \/ EvictExpired
    \/ CacheClear
    \/ ClockTicks

CacheSpec == CacheInit /\ [][CacheNext]_vars

\* ---------------------------------------------------------------------------
\* scripts/check-layers.ts: the architectural layer linter
\* ---------------------------------------------------------------------------

\* A workspace-relative path of a .ts file: its directories and its base name.
LAYERS == <<"Types", "Config", "Repo", "Service", "Runtime", "UI">>
Layers == {LAYERS[i] : i \in DOMAIN LAYERS}
LAYER_INDEX(layer) == (CHOOSE i \in DOMAIN LAYERS : LAYERS[i] = layer) - 1
NullLayer == "null"

TsPath(dirs, base) == [dirs |-> dirs, base |-> base]

\* rel.startsWith("a/b/") and rel.includes("/d/").
PathStartsWith(rel, dirs) ==
    /\ Len(rel.dirs) >= Len(dirs)
    /\ SubSeq(rel.dirs, 1, Len(dirs)) = dirs
PathIncludes(rel, dir) == \E i \in 2..Len(rel.dirs) : rel.dirs[i] = dir

\* LAYER_PATTERNS, first match wins.
classifyPath(rel) ==
    IF PathStartsWith(rel, <<"docs", "schema">>) THEN "Types"
    ELSE IF PathStartsWith(rel, <<"src", "core", "guardrails">>) THEN "Config"
    ELSE IF PathStartsWith(rel, <<"src", "core", "context">>) THEN "Repo"
    ELSE IF \/ PathStartsWith(rel, <<"src", "core", "agents">>)
            \/ PathStartsWith(rel, <<"src", "core", "tools">>) THEN "Service"
    ELSE IF \/ rel = TsPath(<<"src", "core">>, "flywheel")
            \/ rel = TsPath(<<"src", "core">>, "index")
            \/ /\ PathStartsWith(rel, <<"src", "core">>)
               /\ ~PathIncludes(rel, "guardrails")
               /\ ~PathIncludes(rel, "context")
               /\ ~PathIncludes(rel, "agents")
               /\ ~PathIncludes(rel, "tools") THEN "Runtime"
    ELSE IF PathStartsWith(rel, <<"scripts">>) THEN "UI"
    ELSE NullLayer

\* A source file is a sequence of statements, each of one form and naming a
\* relative specifier: `up` parent steps, then directories, a base name and
\* an extension ("" when none is written).
ImportForms == {"importFrom", "exportStarFrom", "dynamicImport", "sideEffectImport"}
StaticForms == {"importFrom", "exportStarFrom"}
DynamicForms == {"dynamicImport"}
Specifier(up, dirs, base, ext) == [up |-> up, dirs |-> dirs, base |-> base, ext |-> ext]
Statement(form, specifier) == [form |-> form, spec |-> specifier]

SpecifiersOf(source, forms) ==
    LET matched == SelectSeq(source, LAMBDA st : st.form \in forms)
    IN  [i \in DOMAIN matched |-> matched[i].spec]

\* extractImports: the matches of staticRe, then those of dynamicRe.
extractImports(source) ==
    SpecifiersOf(source, StaticForms) \o SpecifiersOf(source, DynamicForms)

\* resolveImport: a trailing .js is stripped, the specifier is resolved
\* against the importing file's directory, and .ts is appended unless
\* already there. A specifier that climbs above the root keeps its "..".
resolveImport(fromFile, importSpec) ==
    LET fromDir == fromFile.dirs
        above == importSpec.up - Len(fromDir)
    IN  TsPath(IF above > 0
               THEN [i \in 1..above |-> ".."] \o importSpec.dirs
               ELSE SubSeq(fromDir, 1, Len(fromDir) - importSpec.up) \o importSpec.dirs,
               importSpec.base)

\* buildFixInstruction: the layers named as valid targets are
\* LAYERS.slice(LAYER_INDEX[from] + 1).
buildFixInstruction(from, to, importedPath) ==
    [mustNotDependOn |-> to,
     validTargets |-> SubSeq(LAYERS, LAYER_INDEX(from) + 2, Len(LAYERS)),
     moveCandidate |-> importedPath]

LayerViolation(relFile, resolvedRel, fromLayer, toLayer) ==
    [file |-> relFile,
     importedPath |-> resolvedRel,
     fromLayer |-> fromLayer,
     toLayer |-> toLayer,
     fixInstruction |-> buildFixInstruction(fromLayer, toLayer, resolvedRel)]

UpwardDependency(fromLayer, toLayer) == LAYER_INDEX(toLayer) > LAYER_INDEX(fromLayer)

RECURSIVE ImportViolations(_, _, _)
ImportViolations(relFile, fromLayer, imports) ==
    IF imports = <<>> THEN <<>>
    ELSE LET resolvedRel == resolveImport(relFile, Head(imports))
             toLayer == classifyPath(resolvedRel)
             rest == ImportViolations(relFile, fromLayer, Tail(imports))
         IN  IF toLayer = NullLayer THEN rest
             ELSE IF UpwardDependency(fromLayer, toLayer)
             THEN <<LayerViolation(relFile, resolvedRel, fromLayer, toLayer)>> \o rest
             ELSE rest

\* checkLayers: the loop over the files the glob returned.
RECURSIVE checkLayers(_)
checkLayers(tsFiles) ==
    IF tsFiles = <<>> THEN <<>>
    ELSE LET file == Head(tsFiles)
             fromLayer == classifyPath(file.path)
             rest == checkLayers(Tail(tsFiles))
         IN  IF fromLayer = NullLayer \/ ~file.readable THEN rest
             ELSE ImportViolations(file.path, fromLayer, extractImports(file.source)) \o rest

ExitCode(violations) == IF Len(violations) = 0 THEN 0 ELSE 1

\* Inputs: one file of any path and source, and the rest of the workspace.
MaxStatements == 2

FilePaths ==
    { TsPath(<<"src", "core", "guardrails">>, "pii-filter"),
      TsPath(<<"src", "core", "context">>, "indexer"),
      TsPath(<<"src", "core", "agents">>, "planner"),
      TsPath(<<"src", "core">>, "flywheel"),
      TsPath(<<"scripts">>, "seed"),
      TsPath(<<".agentic", "tools">>, "index") }

Specifiers ==
    { Specifier(0, <<>>, "helper", "js"),
      Specifier(1, <<>>, "flywheel", "js"),
      Specifier(3, <<"docs", "schema">>, "entities", "js"),
      Specifier(2, <<"scripts">>, "seed", "ts"),
      Specifier(1, <<>>, "tools", "") }

Statements == {Statement(form, s) : form \in ImportForms, s \in Specifiers}
Sources == SeqsUpTo(Statements, MaxStatements)

SourceFile(path, source, readable) == [path |-> path, source |-> source, readable |-> readable]

SourceFiles ==
    {SourceFile(p, s, TRUE) : p \in FilePaths, s \in Sources}
        \cup {SourceFile(p, <<>>, FALSE) : p \in FilePaths}

CleanFile ==
    SourceFile(TsPath(<<"scripts">>, "check-layers"),
               <<Statement("importFrom", Specifier(1, <<"src", "core">>, "index", "js"))>>, TRUE)
ViolatingFile ==
    SourceFile(TsPath(<<"src", "core", "context">>, "retriever"),
               <<Statement("importFrom", Specifier(1, <<"agents">>, "planner", "js"))>>, TRUE)

Workspaces == {<<f>> \o rest : f \in SourceFiles, rest \in {<<>>, <<CleanFile>>, <<ViolatingFile>>}}

\* The CLI entry point: the violations are printed and the process exits.
CheckLayersExits ==
    /\ pc = "checkLayers"
    /\ returned = Nil
    /\ LET violations == checkLayers(input)
       IN  returned' = Returned([violations |-> violations, exit |-> ExitCode(violations)])
    /\ UNCHANGED <<input, chunkFrame>>

LayerInit ==
    /\ FlywheelIdle("checkLayers")
    /\ input \in Workspaces
    /\ returned = Nil
    /\ memory = Nil
    /\ upserts = <<>>
    /\ RetrieverIdle /\ CacheIdle /\ RunsIdle

LayerNext == CheckLayersExits

LayerSpec == LayerInit /\ [][LayerNext]_vars

\* ---------------------------------------------------------------------------
\* retriever.ts: retrieve with the query cache
\* ---------------------------------------------------------------------------

\* Strings as words, so that the key template is computed by concatenation.
Word(w) == [w |-> w]
Num(n) == [n |-> n]
KeySeparator == Word("::")

\* QueryCache.key: `${collection}::${topK}::${minScore}::${query}`
QueryCacheKey(collection, query, topK, minScore) ==
    collection \o <<KeySeparator, Num(topK), KeySeparator, Num(minScore), KeySeparator>> \o query

\* The documents of the store: a relevance score for the query (tenths), a
\* priority and a source tag in the metadata.
StoredDoc(collection, id, score, priority, source) ==
    [collection |-> collection, id |-> id, score |-> score,
     priority |-> priority, source |-> source]
CodeCollection == <<Word("code")>>
PlansCollection == <<Word("plans")>>
SeededDocs ==
    { StoredDoc(CodeCollection, "a", 9, 1, "golden"),
      StoredDoc(CodeCollection, "b", 5, 3, "crawl"),
      StoredDoc(PlansCollection, "c", 5, 3, "crawl") }
LaterDoc == StoredDoc(CodeCollection, "d", 7, 3, "golden")

\* The options of a call: the defaults, and the defaults with one option
\* changed.
NoWhere == "undefined"
NoPriority == [k |-> "undefined"]
DefaultRetrieveOptions ==
    [collection |-> CodeCollection, topK |-> 2, minScore |-> DefaultMinScore,
     where |-> NoWhere, minPriority |-> NoPriority]
OptionVariants ==
    { DefaultRetrieveOptions,
      [DefaultRetrieveOptions EXCEPT !.collection = PlansCollection],
      [DefaultRetrieveOptions EXCEPT !.topK = 1],
      [DefaultRetrieveOptions EXCEPT !.minScore = 6],
      [DefaultRetrieveOptions EXCEPT !.where = "golden"],
      [DefaultRetrieveOptions EXCEPT !.minPriority = Num(2)] }
RetrieveQueries == {<<Word("q")>>}
RetrieveKeys ==
    {QueryCacheKey(o.collection, q, o.topK, o.minScore) : o \in OptionVariants, q \in RetrieveQueries}

\* effectiveWhere: minPriority merged into the where filter.
EffectiveWhere(where, minPriority) == [source |-> where, priorityGte |-> minPriority]
Matches(doc, filter) ==
    /\ filter.source # NoWhere => doc.source = filter.source
    /\ filter.priorityGte # NoPriority => doc.priority >= filter.priorityGte.n

\* store.query(collection, query, topK, where): the topK best matches, best
\* first.
RECURSIVE Ranked(_, _)
Ranked(docs, k) ==
    IF docs = {} \/ k = 0 THEN <<>>
    ELSE LET best == CHOOSE d \in docs : \A e \in docs : e.score <= d.score
         IN  <<[id |-> best.id, score |-> best.score]>> \o Ranked(docs \ {best}, k - 1)
StoreQuery(mem, collection, topK, filter) ==
    Ranked({d \in mem : d.collection = collection /\ Matches(d, filter)}, topK)

\* results.filter((r) => r.score >= minScore)
FilterByScore(results, minScore) == SelectSeq(results, LAMBDA r : r.score >= minScore)

\* A retrieve that does not use the cache.
UncachedRetrieve(mem, o) ==
    FilterByScore(StoreQuery(mem, o.collection, o.topK, EffectiveWhere(o.where, o.minPriority)),
                  o.minScore)

\* The key retrieve hands to queryCache.get and queryCache.set.
LookupKey(query, o) == QueryCacheKey(o.collection, query, o.topK, o.minScore)

MaxRetrieves == 2

\* retrieve(query, options): served from the cache when opted in and the
\* entry is there and not expired, else queried, filtered and (when opted
\* in) stored.
CachedRetrieve(query, o, useCache) ==
    LET k == LookupKey(query, o)
        entry == cacheStore.store[k]
        hit == useCache /\ entry # Nil /\ ~Expired(entry, now)
        filtered == UncachedRetrieve(memory, o)
    IN  /\ pc = "retrieve"
        /\ setLog.retrieves < MaxRetrieves
        /\ input' = [query |-> query, options |-> o, useCache |-> useCache, hit |-> hit]
        /\ returned' = Returned(IF hit THEN entry.results ELSE filtered)
        /\ cacheStore' =
              IF hit \/ ~useCache THEN cacheStore
              ELSE [cacheStore EXCEPT
                      !.store[k] = [results |-> filtered, expiresAt |-> now + cacheStore.ttlMs]]
        /\ setLog' =
              [retrieves |-> setLog.retrieves + 1,
               storedFrom |-> IF hit \/ ~useCache THEN setLog.storedFrom
                              ELSE [setLog.storedFrom EXCEPT
                                      ![k] = [memory |-> memory, options |-> o]]]
        /\ UNCHANGED <<now, memory, upserts, flywheelVars, retrieverVars, runVars>>

\* Another caller indexes a document between two retrieves.
StoreUpserts ==
    /\ pc = "retrieve"
    /\ LaterDoc \notin memory
    /\ memory' = memory \cup {LaterDoc}
    /\ UNCHANGED <<input, returned, upserts, cacheVars, flywheelVars, retrieverVars, runVars>>

RetrieveClockTicks ==
    /\ pc = "retrieve"
    /\ now < MaxClock
    /\ now' = now + 1
    /\ UNCHANGED <<input, returned, cacheStore, setLog, cacheFrame>>

CachedRetrieveInit ==
    /\ FlywheelIdle("retrieve")
    /\ input = Nil
    /\ returned = Nil
    /\ memory = SeededDocs
    /\ upserts = <<>>
    /\ RetrieverIdle /\ RunsIdle
    /\ \E ttl \in Ttls : cacheStore = [ttlMs |-> ttl, store |-> [k \in RetrieveKeys |-> Nil]]
    /\ now = 0
    /\ setLog = [retrieves |-> 0, storedFrom |-> [k \in RetrieveKeys |-> Nil]]

CachedRetrieveNext ==
    \/ \E q \in RetrieveQueries, o \in OptionVariants, useCache \in BOOLEAN :
          CachedRetrieve(q, o, useCache)
    \/ StoreUpserts
    \/ RetrieveClockTicks

CachedRetrieveSpec == CachedRetrieveInit /\ [][CachedRetrieveNext]_vars

\* ---------------------------------------------------------------------------
\* chroma-store.ts: ChromaMemoryStore.getOrCreateCollection
\* ---------------------------------------------------------------------------

\* One store instance, and callers of upsert / query that may be in flight
\* together (Promise.all over retrieve calls, tools running side by side).
MaxCallers == 2
Callers == 1..MaxCallers
CollectionNames == {COLLECTIONS.CODE, COLLECTIONS.VULNERABILITIES}
StoreOps == {"upsert", "upsertNothing", "query"}

\* The Collection object the client's n-th call for a name resolves with.
Handle(name, n) == [name |-> name, n |-> n]
NotCalling == [pc |-> "idle", op |-> "none", name |-> "none", handle |-> Nil]
Calling(at, op, name, handle) == [pc |-> at, op |-> op, name |-> name, handle |-> handle]

storeFrame == <<input, returned, upserts, flywheelVars, cacheVars, runVars>>

\* upsert(collection, documents) / query(collection, ...) up to the first
\* await: an empty upsert returns at once; a cached handle is returned;
\* otherwise client.getOrCreateCollection is called and awaited.
StoreCallStarts(c, op, name) ==
    LET cached == memory.colCache[name] IN
    /\ pc = "chromaStore"
    /\ pending[c].pc = "idle"
    /\ IF op = "upsertNothing"
       THEN /\ pending' = [pending EXCEPT ![c] = Calling("returned", op, name, Nil)]
            /\ UNCHANGED memory
       ELSE IF cached # Nil
       THEN /\ pending' = [pending EXCEPT ![c] = Calling("using", op, name, cached)]
            /\ UNCHANGED memory
       ELSE /\ memory' = [memory EXCEPT !.clientCalls[name] = @ + 1]
            /\ pending' = [pending EXCEPT ![c] =
                    Calling("awaitClient", op, name, Handle(name, memory.clientCalls[name] + 1))]
    /\ UNCHANGED storeFrame

\* The client call of caller c resolved: the handle is cached and used.
ClientResolves(c) ==
    LET name == pending[c].name
        col == pending[c].handle
    IN  /\ pc = "chromaStore"
        /\ pending[c].pc = "awaitClient"
        /\ memory' = [memory EXCEPT !.colCache[name] = col]
        /\ pending' = [pending EXCEPT ![c] = Calling("using", pending[c].op, name, col)]
        /\ UNCHANGED storeFrame

\* The client call of caller c rejected: nothing is cached.
ClientRejects(c) ==
    /\ pc = "chromaStore"
    /\ pending[c].pc = "awaitClient"
    /\ pending' = [pending EXCEPT ![c] = Calling("rejected", pending[c].op, pending[c].name, Nil)]
    /\ UNCHANGED <<memory, storeFrame>>

\* col.upsert / col.query on the handle settled.
CollectionCallSettles(c) ==
    /\ pc = "chromaStore"
    /\ pending[c].pc = "using"
    /\ pending' = [pending EXCEPT ![c].pc = "returned"]
    /\ UNCHANGED <<memory, storeFrame>>

ChromaInit ==
    /\ FlywheelIdle("chromaStore")
    /\ input = Nil
    /\ returned = Nil
    /\ upserts = <<>>
    /\ CacheIdle /\ RunsIdle
    /\ memory = [colCache |-> [name \in CollectionNames |-> Nil],
                 clientCalls |-> [name \in CollectionNames |-> 0]]
    /\ pending = [c \in Callers |-> NotCalling]

ChromaNext ==
    \/ \E c \in Callers, op \in StoreOps, name \in CollectionNames : StoreCallStarts(c, op, name)
    \/ \E c \in Callers : ClientResolves(c)
    \/ \E c \in Callers : ClientRejects(c)
    \/ \E c \in Callers : CollectionCallSettles(c)

ChromaSpec == ChromaInit /\ [][ChromaNext]_vars

\* ---------------------------------------------------------------------------
\* Properties
\* ---------------------------------------------------------------------------

CallIndexes(fn) == {i \in DOMAIN calls : calls[i].fn = fn}
Called(fn) == CallIndexes(fn) # {}
CallCount(fn) == Cardinality(CallIndexes(fn))

\* C1: a raw first response that is valid for the target schema makes
\* parseAgentOutputWithRetry return the typed value of that response with no
\* correction call to the generator.
C1_ValidFirstResponseNeedsNoCorrection ==
    (pc = GuardPc /\ phase # "called" /\ attempt = 0 /\ Validate(schema, lastText).success)
        => /\ phase = "returned"
           /\ error = NoError
           /\ genCalls = 0
           /\ guardResult = Validate(schema, lastText).data
           /\ \A d \in GuardDocs :
                lastText \in {<<Doc(d)>>, <<Fence, Lang("json"), Doc(d), Fence>>}
                    => guardResult.id = d.id

C1_Witness ==
    /\ pc = GuardPc
    /\ phase = "returned"
    /\ maxRetries = 2
    /\ schema = "TechSpec"
    /\ lastText = <<Fence, Lang("json"), Doc([k |-> "TechSpec", id |-> "s1", acceptanceCriteria |-> 1]), Fence>>
    /\ genCalls = 0

AllAttemptsFailed ==
    /\ Len(verdicts) = maxRetries + 1
    /\ \A i \in DOMAIN verdicts : ~verdicts[i]

\* C2: parseAgentOutputWithRetry throws 'self-correction exhausted' exactly
\* when all maxRetries + 1 validation attempts failed, and it has then made
\* exactly maxRetries correction calls.
C2_ExhaustedIffAllAttemptsFail ==
    pc = GuardPc
        => /\ (error.kind = "self-correction exhausted") <=> AllAttemptsFailed
           /\ (error.kind = "self-correction exhausted") => genCalls = maxRetries

C2_Witness ==
    /\ pc = GuardPc
    /\ error.kind = "self-correction exhausted"
    /\ maxRetries = 2
    /\ genCalls = 2
    /\ verdicts = <<FALSE, FALSE, FALSE>>

\* C3: a stage transform issues at most 1 + maxRetries generateText calls (its
\* own call and at most maxRetries corrections); every stage runs with the
\* default maxRetries = 1, so no stage issues more than 2.
C3_StageGeneratorCallsBounded ==
    pc \in Stages \cup {"done", "aborted"}
        => /\ maxRetries = 1
           /\ genCalls <= 1 + maxRetries
           /\ genCalls <= 2
           /\ phase = "correct" => genCalls = attempt + 2

C3_Witness ==
    /\ pc = "auditArtifact"
    /\ phase = "correct"
    /\ genCalls = 2

CalledWith(fn, args) == \E i \in CallIndexes(fn) : calls[i].args = args

PastPlanning == spec # Nil
TrustGateEvaluated == logicReview # Nil

\* approveSpec calls issued after the logic review (the trust-gate fallback)
FallbackCalls ==
    {i \in CallIndexes("approveSpec") : \E j \in CallIndexes("runLogicReview") : j < i}
FallbackResolved ==
    \E i \in CallIndexes("approveSpec.resolved") : \E j \in FallbackCalls : j < i

\* C4: once the trust gate has been evaluated (autoMerge requested),
\* autoMerged is true iff audit.passed and logicReview.passed are both true;
\* otherwise the run goes through approveSpec when it is configured (and on to
\* polishOutput when that resolves) and aborts with 'Trust Gate failed' when
\* it is not.
C4_TrustGateDecision ==
    TrustGateEvaluated
        => /\ Truthy(opts.autoMerge)
           /\ autoMerged <=> (audit.passed /\ logicReview.passed)
           /\ pc = "done" => result.autoMerged = autoMerged
           /\ autoMerged => FallbackCalls = {} /\ Called("polishOutput")
           /\ (~autoMerged /\ opts.approveSpec)
                => /\ Cardinality(FallbackCalls) = 1
                   /\ Called("polishOutput") <=> FallbackResolved
                   /\ \A i \in CallIndexes("approveSpec.resolved") :
                        (\E j \in FallbackCalls : j < i)
                            => i + 1 \in CallIndexes("polishOutput")
           /\ (~autoMerged /\ ~opts.approveSpec)
                => /\ pc = "aborted"
                   /\ error.kind = "Trust Gate failed"
                   /\ ~Called("polishOutput")

C4_Witness ==
    /\ TrustGateEvaluated
    /\ audit.passed
    /\ ~logicReview.passed
    /\ ~opts.approveSpec
    /\ error.kind = "Trust Gate failed"

\* C5: with haltOnAuditFailure set, a report with passed = false makes the
\* run reject with 'Audit failed' right after auditArtifact: runLogicReview,
\* the approveSpec fallback and polishOutput are never invoked, whatever
\* autoMerge is.
C5_AuditHaltPrecedesTrustGate ==
    (audit # Nil /\ ~audit.passed /\ opts.haltOnAuditFailure)
        => /\ pc = "aborted"
           /\ error.kind = "Audit failed"
           /\ result = Nil
           /\ logicReview = Nil
           /\ calls[Len(calls)].fn = "auditArtifact"
           /\ ~Called("runLogicReview")
           /\ FallbackCalls = {}
           /\ ~Called("polishOutput")

C5_Witness ==
    /\ audit # Nil
    /\ ~audit.passed
    /\ opts.haltOnAuditFailure
    /\ opts.autoMerge = "true"
    /\ opts.approveSpec
    /\ error.kind = "Audit failed"

\* C6: the trust gate never auto-merges a report that lists a critical or
\* high finding, whatever the report's own passed field says.
C6_HighFindingNeverAutoMerged ==
    (audit # Nil /\ HighCount(audit.findings) > 0) => ~autoMerged

GateEntered ==
    \E i \in CallIndexes("approveSpec") : i > 1 /\ calls[i - 1].fn = "planFeature"

\* C7: the approval gate after planning is entered iff approveSpec is
\* configured and autoMerge is not requested; executeSpec is then invoked only
\* after approveSpec resolved, with exactly the spec it returned; when
\* approveSpec throws (at either gate) the run rejects and no stage transform
\* is invoked afterwards.
C7_ApprovalGate ==
    /\ PastPlanning => (GateEntered <=> (opts.approveSpec /\ ~Truthy(opts.autoMerge)))
    /\ GateEntered
        => \A i \in CallIndexes("executeSpec") :
              /\ calls[i - 1].fn = "approveSpec.resolved"
              /\ calls[i].args = calls[i - 1].args
              /\ calls[i].args = <<approvedSpec>>
    /\ error.kind = "approval rejected"
        => /\ pc = "aborted"
           /\ result = Nil
           /\ calls[Len(calls)].fn = "approveSpec"

C7_Witness ==
    /\ GateEntered
    /\ Called("executeSpec")
    /\ approvedSpec # spec
    /\ pc = "auditArtifact"

\* C8: a configured approval callback is invoked at most once per run: once
\* after planning when autoMerge is not requested, once as the fallback when
\* autoMerge is requested and the trust gate fails, never when the gate
\* passes; a run that returns after the fallback has autoMerged = false and
\* logicReviewPassed equal to the logic review's verdict.
C8_ApproveSpecAtMostOnce ==
    /\ CallCount("approveSpec") <= 1
    /\ ~opts.approveSpec => CallCount("approveSpec") = 0
    /\ opts.approveSpec
        => /\ (PastPlanning /\ ~Truthy(opts.autoMerge)) => CallCount("approveSpec") = 1
           /\ (Truthy(opts.autoMerge) /\ TrustGateEvaluated
                 /\ ~(audit.passed /\ logicReview.passed))
                => CallCount("approveSpec") = 1 /\ FallbackCalls # {}
           /\ (Truthy(opts.autoMerge) /\ TrustGateEvaluated
                 /\ audit.passed /\ logicReview.passed)
                => CallCount("approveSpec") = 0
           /\ (Truthy(opts.autoMerge) /\ ~TrustGateEvaluated) => CallCount("approveSpec") = 0
    /\ (pc = "done" /\ FallbackCalls # {})
        => /\ result.autoMerged = FALSE
           /\ result.logicReviewPassed = BoolStr(logicReview.passed)

C8_Witness ==
    /\ pc = "done"
    /\ opts.autoMerge = "true"
    /\ audit.passed
    /\ ~logicReview.passed
    /\ Len(logicReview.issues) = 1
    /\ CallCount("approveSpec") = 1
    /\ result.autoMerged = FALSE
    /\ result.logicReviewPassed = "false"

\* C9: a run that fails rejects with an error and returns no result; a
\* returned result has spec, artifact, audit and polished, each the value a
\* completed stage produced.
C9_NoPartialResult ==
    /\ error # NoError => pc = "aborted" /\ result = Nil
    /\ pc = "aborted" => error # NoError /\ result = Nil
    /\ pc = "done" => result # Nil
    /\ result # Nil
        => /\ pc = "done"
           /\ error = NoError
           /\ result.spec # Nil /\ result.spec = spec /\ Called("planFeature")
           /\ result.artifact # Nil /\ result.artifact = artifact /\ Called("executeSpec")
           /\ result.audit # Nil /\ result.audit = audit /\ Called("auditArtifact")
           /\ result.polished # Nil /\ result.polished = polished /\ Called("polishOutput")

C9_Witness ==
    /\ pc = "aborted"
    /\ error = [kind |-> "self-correction exhausted", at |-> "polishOutput"]
    /\ audit # Nil
    /\ result = Nil

AuditFailedNoHalt == audit # Nil /\ ~audit.passed /\ ~opts.haltOnAuditFailure

StageOrder == <<"planFeature", "executeSpec", "auditArtifact", "runLogicReview", "polishOutput">>

\* The stage's promise has resolved: runFlywheel holds its value.
Resolved(stage) ==
    CASE stage = "planFeature" -> spec # Nil
      [] stage = "executeSpec" -> artifact # Nil
      [] stage = "auditArtifact" -> audit # Nil
      [] stage = "runLogicReview" -> logicReview # Nil
      [] stage = "polishOutput" -> polished # Nil

\* C11: the stage transforms run one after another in the order plan,
\* execute, audit, (logic review), polish: each is invoked at most once, only
\* after every earlier stage has resolved, at most one is in flight, and each
\* receives what its predecessor produced (executeSpec the approved spec,
\* auditArtifact the executor's artifact, runLogicReview the spec and the
\* artifact, polishOutput the artifact and the audit report).
C11_StagesSequential ==
    LET expected == IF Truthy(opts.autoMerge)
                    THEN StageOrder
                    ELSE <<"planFeature", "executeSpec", "auditArtifact", "polishOutput">>
        started == SelectSeq(calls, LAMBDA c : c.fn \in Stages)
        n == Len(started)
    IN  /\ n <= Len(expected)
        /\ \A k \in 1..n :
              /\ started[k].fn = expected[k]
              /\ k < n => Resolved(expected[k])
              /\ (k = n /\ ~Resolved(expected[k]) /\ pc # "aborted") => pc = expected[k]
        /\ pc \in Stages => (n > 0 /\ pc = expected[n])
        /\ \A i \in DOMAIN calls :
              CASE calls[i].fn = "executeSpec" ->
                     calls[i].args = IF calls[i - 1].fn = "approveSpec.resolved"
                                     THEN calls[i - 1].args ELSE <<spec>>
                [] calls[i].fn = "auditArtifact" -> calls[i].args = <<artifact>>
                [] calls[i].fn = "runLogicReview" -> calls[i].args = <<spec, artifact>>
                [] calls[i].fn = "polishOutput" -> calls[i].args = <<artifact, audit>>
                [] OTHER -> TRUE

C11_Witness ==
    /\ pc = "done"
    /\ \A i \in 1..5 : Called(StageOrder[i])
    /\ CalledWith("polishOutput", <<artifact, audit>>)
    /\ artifact.summary = "generated [observability-warning]"

\* C12: the returned result carries the fields autoMerged and
\* logicReviewPassed only when autoMerge was requested; with autoMerge unset
\* or false it carries neither.
C12_TrustFieldsOnlyWhenRequested ==
    pc = "done"
        => /\ ("autoMerged" \in DOMAIN result) <=> Truthy(opts.autoMerge)
           /\ ("logicReviewPassed" \in DOMAIN result) <=> Truthy(opts.autoMerge)

\* What parseAgentOutput did with lastText is what Validate gives for text.
SameOutcomeAs(text) ==
    LET r == Validate(schema, text) IN
    IF r.success
    THEN phase = "returned" /\ guardResult = r.data
    ELSE phase = "thrown" /\ issuesSummary = r.issues

\* C13: a payload wrapped in a fenced code block, with any language tag or
\* none, is parsed to the same typed value, or fails the same way, as the
\* unwrapped payload.
C13_FenceWrapTransparent ==
    (pc = ParsePc /\ phase # "called")
        => \A tag \in WrapTags : \A p \in Payloads :
              lastText = Wrap(tag, p) => SameOutcomeAs(p)

\* C14: when attempt k is the first that passes (k <= maxRetries),
\* parseAgentOutputWithRetry returns the value parsed from the k-th text
\* after exactly k correction calls, and takes no further step (so no further
\* generator call); a text that passes at an attempt within the budget is
\* always returned.
C14_ReturnsAtFirstPassingAttempt ==
    /\ [](pc = GuardPc
            => /\ phase = "returned"
                  => /\ attempt <= maxRetries
                     /\ Len(verdicts) = attempt + 1
                     /\ verdicts[attempt + 1]
                     /\ \A i \in 1..attempt : ~verdicts[i]
                     /\ genCalls = attempt
                     /\ Validate(schema, lastText).success
                     /\ guardResult = Validate(schema, lastText).data
                     /\ error = NoError
               /\ (phase \in {"returned", "thrown", "correct"}
                     /\ Validate(schema, lastText).success)
                  => phase = "returned")
    /\ [][(pc = GuardPc /\ phase = "returned") => FALSE]_vars

C14_Witness ==
    /\ pc = GuardPc
    /\ phase = "returned"
    /\ maxRetries = 1
    /\ attempt = 1
    /\ verdicts = <<FALSE, TRUE>>
    /\ genCalls = 1
    /\ guardResult # Nil

\* C15: the self-correction-exhausted error carries the diagnostic of the
\* last attempt: the non-JSON message when the last text did not parse,
\* otherwise the schema issues of the last text.
C15_ExhaustedCarriesLastDiagnostic ==
    (pc = GuardPc /\ error.kind = "self-correction exhausted")
        => /\ attempt = maxRetries
           /\ LET parsed == JSONParse(Cleaned(lastText)) IN
              IF ~parsed.ok
              THEN issuesSummary = NotJsonSummary
              ELSE /\ ~SafeParse(schema, parsed.value).success
                   /\ issuesSummary = SafeParse(schema, parsed.value).issues
                   /\ issuesSummary # NotJsonSummary

C15_Witness ==
    /\ pc = GuardPc
    /\ error.kind = "self-correction exhausted"
    /\ maxRetries = 2
    /\ attempt = 2
    /\ schema = "TechSpec"
    /\ lastText = <<Doc([k |-> "CodeArtifact", id |-> "a1", nominateAsGolden |-> FALSE])>>
    /\ issuesSummary = <<"id: Required">>

\* C16: a failing generator call (a stage's own call or a correction call of
\* the guard) propagates at once: no further validation attempt and no
\* further generator call are made, the run is aborted with no result, the
\* failing stage is the last stage invoked and nothing happens afterwards.
C16_GeneratorFailurePropagates ==
    /\ [](error.kind = "generator error"
            => /\ pc = "aborted"
               /\ result = Nil
               /\ phase = "thrown"
               /\ error.at \in Stages
               /\ calls[Len(calls)].fn = error.at
               /\ genCalls = Len(verdicts) + 1
               /\ Len(verdicts) <= maxRetries
               /\ \A i \in DOMAIN verdicts : ~verdicts[i]
               /\ ~Resolved(error.at))
    /\ [][pc = "aborted" => FALSE]_vars

C16_Witness ==
    /\ error = [kind |-> "generator error", at |-> "executeSpec"]
    /\ pc = "aborted"
    /\ verdicts = <<FALSE>>
    /\ genCalls = 2
    /\ ~Called("auditArtifact")

PastAuditHalt == audit # Nil /\ ~(~audit.passed /\ opts.haltOnAuditFailure)

\* C17: with autoMerge requested, a run that gets past the audit-halt check
\* invokes runLogicReview exactly once, and the gate is evaluated when that
\* call resolves; without autoMerge, or before or at the halt, runLogicReview
\* is never invoked and the gate leaves no trace; after the logic review
\* neither the auditor nor the logic critic is invoked again.
C17_TrustGateOnce ==
    /\ (Truthy(opts.autoMerge) /\ PastAuditHalt) => CallCount("runLogicReview") = 1
    /\ (~Truthy(opts.autoMerge) \/ ~PastAuditHalt)
          => /\ CallCount("runLogicReview") = 0
             /\ ~TrustGateEvaluated
             /\ ~autoMerged
             /\ logicReviewPassed = "undefined"
             /\ failReasons = <<>>
    /\ TrustGateEvaluated
          => /\ logicReviewPassed = BoolStr(logicReview.passed)
             /\ failReasons = (IF autoMerged THEN <<>> ELSE FailReasons(audit, logicReview))
    /\ CallCount("auditArtifact") <= 1
    /\ \A i \in CallIndexes("runLogicReview") : \A j \in DOMAIN calls :
          j > i => calls[j].fn \notin {"auditArtifact", "runLogicReview"}

C17_Witness ==
    /\ pc = "done"
    /\ opts.autoMerge = "true"
    /\ opts.haltOnAuditFailure
    /\ ~logicReview.passed
    /\ FallbackResolved
    /\ CallCount("runLogicReview") = 1
    /\ CallCount("auditArtifact") = 1

\* C18: with reseed set, seedContext is invoked exactly once, as the first
\* call of the run and so before planFeature, which is invoked only after it
\* resolved; with reseed not set it is never invoked.
C18_SeedOnceBeforePlanning ==
    /\ (opts.reseed /\ pc # "start")
          => /\ CallCount("seedContext") = 1
             /\ calls[1].fn = "seedContext"
             /\ \A i \in CallIndexes("planFeature") : i = 2
             /\ pc = "seedContext" => ~Called("planFeature")
    /\ ~opts.reseed
          => /\ CallCount("seedContext") = 0
             /\ \A i \in CallIndexes("planFeature") : i = 1

C18_Witness ==
    /\ opts.reseed
    /\ pc = "done"
    /\ CallCount("seedContext") = 1
    /\ calls[2].fn = "planFeature"

\* C19: every report auditArtifact returned has passed = true exactly when
\* none of its findings is critical or high.
C19_AuditPassedIffNoHighFinding ==
    audit # Nil => (audit.passed <=> HighCount(audit.findings) = 0)

\* C20: every review runLogicReview returned has an empty issues list exactly
\* when passed is true.
C20_ReviewIssuesEmptyIffPassed ==
    logicReview # Nil => (logicReview.passed <=> logicReview.issues = <<>>)

\* C30: for every input text chunkText returns (it terminates) and every
\* chunk it returns has at most 1500 characters.
C30_ChunksWithinLimit ==
    (pc = "chunkText" /\ returned # Nil)
        => /\ Len(returned.v) >= 1
           /\ \A i \in DOMAIN returned.v : TextLength(returned.v[i]) <= 1500

C30_Witness ==
    /\ pc = "chunkText"
    /\ input = <<Chars(1501), LineFeed, LineFeed, Chars(1498)>>
    /\ returned = Returned(<<<<Chars(1500)>>, <<Chars(1498)>>>>)

\* C21: every text the memory store holds is free of personally identifying
\* substrings, which is what passing it through sanitize first gives.
ContainsPii(text) == \E i \in DOMAIN text : text[i].t = "pii"

C21_StoredTextSanitized ==
    pc = "indexDocuments" => \A m \in memory : ~ContainsPii(m.content)

\* C21, the indexDocuments write path alone: every document it stored is
\* sanitized.
C21_IndexedTextSanitized ==
    pc = "indexDocuments"
        => \A m \in memory : m.collection # COLLECTIONS.VULNERABILITIES
               => ~ContainsPii(m.content)

\* The last call that returned was indexDocuments.
LastWasIndexDocuments == returned # Nil /\ "indexed" \in DOMAIN returned.v

\* C29: a call of indexDocuments that follows a call with the same inputs
\* leaves the ids and contents of the store as they were, and a call with
\* an empty input list returns indexed = 0 and does not call upsert.
C29_IndexingIdempotent ==
    /\ [][(IndexDocuments /\ LastWasIndexDocuments) => memory' = memory]_vars
    /\ [][(IndexDocuments /\ input = <<>>)
            => /\ returned'.v.indexed = 0
               /\ upserts' = <<>> /\ memory' = memory]_vars

C29_Witness ==
    /\ pc = "indexDocuments"
    /\ Len(input) = 2
    /\ upserts = <<COLLECTIONS.DEFAULT>>
    /\ LastWasIndexDocuments
    /\ returned.v.indexed = 3
    /\ Cardinality(memory) = 3

\* The per-collection results, in the order of the collections argument.
BatchesInCallOrder ==
    [i \in DOMAIN input.collections |-> Retrieve(input.answers, input.collections[i])]

\* C22: what retrieveMulti returns holds exactly the ids of the
\* per-collection results, each id once, in non-increasing order of score,
\* and is the same whatever the order in which the retrieve calls settled.
C22_MergedIndependentOfCompletion ==
    (pc = "retrieveMulti" /\ returned # Nil /\ returned.k = "returned")
        => LET out == returned.v IN
           /\ {out[i].id : i \in DOMAIN out}
                = UNION {{b[j].id : j \in DOMAIN b} : b \in {BatchesInCallOrder[n] : n \in DOMAIN BatchesInCallOrder}}
           /\ \A i \in DOMAIN out :
                \E n \in DOMAIN BatchesInCallOrder :
                    \E j \in DOMAIN BatchesInCallOrder[n] : BatchesInCallOrder[n][j] = out[i]
           /\ \A i, j \in DOMAIN out : i < j => out[i].id # out[j].id /\ out[i].score >= out[j].score
           /\ out = Merge(BatchesInCallOrder)

C22_Witness ==
    /\ pc = "retrieveMulti"
    /\ input.collections = <<"plans", "code">>
    /\ input.answers["plans"] = <<[id |-> "a", score |-> 5]>>
    /\ input.answers["code"] = <<[id |-> "a", score |-> 9], [id |-> "b", score |-> 5]>>
    /\ returned = Returned(<<[id |-> "a", score |-> 5], [id |-> "b", score |-> 5]>>)

\* C23: the result of a run holds its own runId and brief and values its
\* own calls produced, and every argument a run handed to a collaborator
\* was produced by a call of that same run (or is its own brief).
C23_RunsDoNotInterfere ==
    pc = "runs" =>
        \A r \in RunIds :
            LET c == runs.ctl[r] IN
            /\ c.result # Nil
                => /\ c.result.runId = RunId(r)
                   /\ c.result.brief = Brief(r)
                   /\ c.result.spec = Produced("planFeature", r)
                   /\ c.result.artifact = Produced("executeSpec", r)
                   /\ c.result.audit.fn = "auditArtifact" /\ c.result.audit.by = r
                   /\ c.result.polished = Produced("polishOutput", r)
            /\ \A i \in DOMAIN c.handed :
                   \A j \in DOMAIN c.handed[i].args : c.handed[i].args[j].by = r

\* Both runs completed, each with an artifact of its own.
C23_Witness ==
    /\ pc = "runs"
    /\ \A r \in RunIds : runs.ctl[r].pc = "done" /\ runs.ctl[r].result # Nil
    /\ Truthy(runs.ctl[1].opts.autoMerge) /\ runs.ctl[2].opts.approveSpec
    /\ runs.locals[1].artifact # runs.locals[2].artifact

\* The arguments of every call of fn so far satisfy P.
EveryCall(fn, P(_)) == \A i \in DOMAIN calls : calls[i].fn = fn => P(calls[i].args)

\* C24: once assigned, artifact and audit never change; auditArtifact,
\* runLogicReview and polishOutput are handed exactly those values; the
\* result carries them, and the polished value is stored beside the
\* artifact, not in its place.
C24_ArtifactsNeverModified ==
    /\ [][artifact # Nil => artifact' = artifact]_vars
    /\ [][audit # Nil => audit' = audit]_vars
    /\ [](EveryCall("auditArtifact", LAMBDA a : artifact # Nil /\ a = <<artifact>>))
    /\ [](EveryCall("runLogicReview", LAMBDA a : artifact # Nil /\ a[2] = artifact))
    /\ [](EveryCall("polishOutput",
                    LAMBDA a : artifact # Nil /\ audit # Nil /\ a = <<artifact, audit>>))
    /\ [](result # Nil
            => /\ result.artifact = artifact /\ result.audit = audit
               /\ result.polished = polished)

C24_Witness ==
    /\ pc = "done"
    /\ result # Nil
    /\ result.artifact = artifact
    /\ result.polished # result.artifact
    /\ Called("runLogicReview")
    /\ artifact.summary = "generated [observability-warning]"

Terminated == pc \in {"done", "aborted"}

\* C25: with every awaited call eventually resolving or rejecting, a run
\* ends as done (a result, no error) or as aborted (an error, no result)
\* and then takes no further step; no stage transform is called twice, and
\* the loop of the guard makes at most maxRetries + 1 attempts.
C25_RunTerminates ==
    /\ <>Terminated
    /\ [][~Terminated]_vars
    /\ [](pc = "done" <=> result # Nil)
    /\ [](pc = "aborted" <=> error # NoError)
    /\ [](\A stage \in Stages : Len(SelectSeq(calls, LAMBDA c : c.fn = stage)) <= 1)
    /\ [](attempt <= maxRetries /\ Len(verdicts) <= maxRetries + 1)

\* A run that ended as done, through the trust gate and its fallback.
C25_Witness ==
    /\ pc = "done"
    /\ Called("runLogicReview")
    /\ Called("approveSpec")
    /\ result # Nil

\* The entries of failReasons a sentinel contributed.
ReasonsOf(sentinel) == SelectSeq(failReasons, LAMBDA e : e.sentinel = sentinel)

\* C26: after a failed trust gate failReasons is not empty and has one
\* entry per failing sentinel: the number of critical/high findings iff the
\* audit failed, the issue list of the logic review iff the review failed;
\* the 'Trust Gate failed' error carries exactly those entries.
C26_FailReasonsPerSentinel ==
    (logicReview # Nil /\ ~(audit.passed /\ logicReview.passed))
        => /\ failReasons # <<>>
           /\ ReasonsOf("Security Sentinel")
                = (IF audit.passed THEN <<>>
                   ELSE <<[sentinel |-> "Security Sentinel",
                           detail |-> <<Cardinality({i \in DOMAIN audit.findings :
                                            audit.findings[i] \in {"critical", "high"}})>>]>>)
           /\ ReasonsOf("Logic Critic")
                = (IF logicReview.passed THEN <<>>
                   ELSE <<[sentinel |-> "Logic Critic", detail |-> logicReview.issues]>>)
           /\ Len(failReasons) = Len(ReasonsOf("Security Sentinel")) + Len(ReasonsOf("Logic Critic"))
           /\ error.kind = "Trust Gate failed" => error.detail = failReasons

C26_Witness ==
    /\ pc = "aborted"
    /\ error.kind = "Trust Gate failed"
    /\ ~audit.passed /\ ~logicReview.passed
    /\ Len(failReasons) = 2
    /\ error.detail = failReasons

\* The content of the first fenced code block of a text that holds a fence:
\* what follows the opening fence line (the fence, a language word if any,
\* a line break) up to the next fence, or to the end when none follows.
FirstBlockContent(text) ==
    LET F == FencePositions(text)
        open == Min(F)
        close == IF F \ {open} = {} THEN Len(text) + 1 ELSE Min(F \ {open})
        afterTag == IF open + 1 < close /\ text[open + 1].t = "lang" THEN open + 2 ELSE open + 1
        afterNl == IF afterTag < close /\ text[afterTag] = NL THEN afterTag + 1 ELSE afterTag
    IN  SubSeq(text, afterNl, close - 1)

\* The payload by the stated rule: the first block when there is a fence,
\* the whole text only when there is none; trimmed.
PayloadByRule(text) ==
    Trim(IF FencePositions(text) = {} THEN text ELSE FirstBlockContent(text))

\* C27: parseAgentOutput returns or throws as it would on the content of
\* the first fenced code block of the raw text, wherever the block stands,
\* and on the whole trimmed text only when the text holds no fence.
C27_FirstFencedBlockElseWhole ==
    (pc = ParsePc /\ phase # "called") => SameOutcomeAs(PayloadByRule(lastText))

\* C27 for the texts with no fence, and for those whose first fence is
\* closed and carries no language word or one of json, typescript, ts.
C27_ClosedListedBlockElseWhole ==
    (/\ pc = ParsePc /\ phase # "called"
     /\ LET F == FencePositions(lastText) IN
        \/ F = {}
        \/ /\ Cardinality(F) >= 2
           /\ LET next == lastText[Min(F) + 1] IN next.t = "lang" => next.name \in FenceTags)
        => SameOutcomeAs(PayloadByRule(lastText))

\* The latest set of key k is still in force at the current time.
SetInForce(k) == setLog[k] # Nil /\ now <= setLog[k].at + cacheStore.ttlMs

\* A get finds an expired entry and removes it; what a get returns is
\* never expired.
GetDropsExpired(k) ==
    /\ (cacheStore.store[k] # Nil /\ now > cacheStore.store[k].expiresAt)
          => cacheStore'.store[k] = Nil
    /\ returned'.v # Undefined
          => cacheStore.store[k] # Nil /\ now <= cacheStore.store[k].expiresAt

\* C28 as stated: get(k) returns the results of the latest set of k iff
\* such a set occurred and the time is not past its expiry, undefined
\* otherwise, and removes an expired entry it finds.
C28_GetIffSetAndNotExpired ==
    [][\A k \in CacheKeys :
          CacheGet(k) =>
              /\ returned'.v = (IF SetInForce(k) THEN setLog[k].results ELSE Undefined)
              /\ GetDropsExpired(k)]_vars

\* C28, amended: the same with a set that no clear() has followed.
C28_GetIffSetNotClearedNotExpired ==
    [][\A k \in CacheKeys :
          CacheGet(k) =>
              /\ returned'.v = (IF SetInForce(k) /\ ~setLog[k].cleared
                                THEN setLog[k].results ELSE Undefined)
              /\ GetDropsExpired(k)]_vars

\* A get at the very expiry time of an entry set again after a clear.
C28_Witness ==
    /\ pc = "queryCache"
    /\ input = [op |-> "get", key |-> "k1"]
    /\ returned = Returned("r2")
    /\ cacheStore.ttlMs = 2
    /\ setLog["k1"] = [at |-> 1, results |-> "r2", cleared |-> FALSE]
    /\ setLog["k2"] # Nil /\ setLog["k2"].cleared
    /\ now = 3

\* The violations reported for a file of the linted workspace.
ImportedLayer(file, st) == classifyPath(resolveImport(file.path, st.spec))
ReportedFor(file, st) ==
    \E i \in DOMAIN returned.v.violations :
        /\ returned.v.violations[i].file = file.path
        /\ returned.v.violations[i].importedPath = resolveImport(file.path, st.spec)
MustBeReported(file, st) ==
    /\ classifyPath(file.path) # NullLayer
    /\ ImportedLayer(file, st) # NullLayer
    /\ LAYER_INDEX(ImportedLayer(file, st)) > LAYER_INDEX(classifyPath(file.path))
LintDone == pc = "checkLayers" /\ returned # Nil
ExitMatchesReport == returned.v.exit = (IF returned.v.violations = <<>> THEN 0 ELSE 1)

\* C31: a violation is reported for an import of a linted file exactly when
\* the importing file and the resolved target are both classified and the
\* target's layer index is strictly greater; the exit code is 0 iff no
\* violation was reported and 1 otherwise.
C31_ViolationIffUpwardImport ==
    LintDone =>
        /\ \A i \in DOMAIN input : \A j \in DOMAIN input[i].source :
               input[i].readable =>
                   (ReportedFor(input[i], input[i].source[j])
                        <=> MustBeReported(input[i], input[i].source[j]))
        /\ ExitMatchesReport

\* C31 for the imports written with `from` or as import("..."): the forms
\* extractImports matches.
C31_ExtractedImportIffUpward ==
    LintDone =>
        /\ \A i \in DOMAIN input : \A j \in DOMAIN input[i].source :
               input[i].readable /\ input[i].source[j].form \in StaticForms \cup DynamicForms =>
                   (ReportedFor(input[i], input[i].source[j])
                        <=> MustBeReported(input[i], input[i].source[j]))
        /\ ExitMatchesReport

\* C36: the valid dependency targets a reported violation lists for its
\* from-layer are layers of index not greater than the from-layer's.
C36_ListedTargetsAreAccepted ==
    LintDone =>
        \A i \in DOMAIN returned.v.violations :
            LET v == returned.v.violations[i]
            IN  \A t \in DOMAIN v.fixInstruction.validTargets :
                    LAYER_INDEX(v.fixInstruction.validTargets[t]) <= LAYER_INDEX(v.fromLayer)

\* The whole trimmed text is JSON that conforms to the schema.
WholeTextConforms(s, text) ==
    LET parsed == JSONParse(Trim(text)) IN
    parsed.ok /\ SafeParse(s, parsed.value).success

\* C32: a raw text that is, trimmed, valid JSON conforming to the schema is
\* accepted on the first attempt by parseAgentOutput and by
\* parseAgentOutputWithRetry, also when a string value in it holds
\* triple-backtick fences.
C32_ValidJsonAcceptedAtOnce ==
    (/\ pc \in {ParsePc, GuardPc}
     /\ phase # "called"
     /\ attempt = 0
     /\ maxRetries >= 0
     /\ WholeTextConforms(schema, lastText))
        => phase = "returned" /\ genCalls = 0

\* C32 for the texts in which no string value holds two fences or more.
C32_AcceptedUnlessTwoFences ==
    (/\ pc \in {ParsePc, GuardPc}
     /\ phase # "called"
     /\ attempt = 0
     /\ maxRetries >= 0
     /\ WholeTextConforms(schema, lastText)
     /\ Cardinality(FencePositions(lastText)) < 2)
        => phase = "returned" /\ genCalls = 0

\* An approveSpec call has resolved before call i.
ResolvedBefore(i) == {j \in CallIndexes("approveSpec.resolved") : j < i}
FallbackResolutions ==
    {j \in CallIndexes("approveSpec.resolved") : \E f \in FallbackCalls : f < j}
\* After the fallback resolved only polishOutput(artifact, audit) is called.
FallbackSpecUnused ==
    \A j \in FallbackResolutions : \A i \in DOMAIN calls :
        i > j => calls[i].fn = "polishOutput" /\ calls[i].args = <<artifact, audit>>

ServedFromCache == pc = "retrieve" /\ input # Nil /\ input.useCache /\ input.hit
StoredFrom(k) == setLog.storedFrom[k].memory

\* C34: a retrieve served from the cache returns what an uncached retrieve
\* with the same options would have returned when the entry was stored: calls
\* that differ in collection, topK, minScore, where or minPriority do not
\* share an entry.
C34_CachedEqualsUncached ==
    ServedFromCache =>
        returned.v = UncachedRetrieve(StoredFrom(LookupKey(input.query, input.options)),
                                      input.options)

\* C34 for the options that are part of the key: an entry is shared only by
\* calls of the same collection, topK and minScore, and a cached retrieve
\* returns what the call that stored the entry returned.
C34_SharedOnlyUnderSameKeyOptions ==
    ServedFromCache =>
        LET from == setLog.storedFrom[LookupKey(input.query, input.options)] IN
        /\ from.options.collection = input.options.collection
        /\ from.options.topK = input.options.topK
        /\ from.options.minScore = input.options.minScore
        /\ returned.v = UncachedRetrieve(from.memory, from.options)

\* The collection an input names: input.collection, or the default.
OwnCollection(in) ==
    IF in.collection # "undefined" THEN in.collection ELSE COLLECTIONS.DEFAULT
StoredIn(collection, id) == \E m \in memory : m.collection = collection /\ m.id = id

\* C35: after indexDocuments every document is stored in the collection its
\* own input names (the default when it names none), not in the collection
\* of the first input.
C35_StoredInOwnCollection ==
    (pc = "indexDocuments" /\ LastWasIndexDocuments)
        => \A i \in DOMAIN input :
              LET documents == DocumentsOf(input[i]) IN
              \A j \in DOMAIN documents : StoredIn(OwnCollection(input[i]), documents[j].id)

\* What holds instead: every document is stored in the collection of the
\* first input.
C35_StoredInFirstCollection ==
    (pc = "indexDocuments" /\ LastWasIndexDocuments)
        => \A i \in DOMAIN input :
              LET documents == DocumentsOf(input[i]) IN
              \A j \in DOMAIN documents : StoredIn(TargetCollection(input), documents[j].id)

\* C37: with maxRetries = 0 parseAgentOutputWithRetry makes no generator
\* call, returns the typed value parseAgentOutput returns for the same schema
\* and raw text, and throws when parseAgentOutput throws.
C37_ZeroRetriesIsParseAgentOutput ==
    (pc = GuardPc /\ maxRetries = 0 /\ phase # "called")
        => /\ genCalls = 0
           /\ attempt = 0
           /\ LET r == Validate(schema, lastText) IN
              IF r.success
              THEN phase = "returned" /\ guardResult = r.data /\ error = NoError
              ELSE phase = "thrown" /\ guardResult = Nil /\ error.kind # "none"

\* A fenced document of the wrong schema, rejected with no correction round.
C37_Witness ==
    /\ pc = GuardPc
    /\ maxRetries = 0
    /\ phase = "thrown"
    /\ genCalls = 0
    /\ error.kind = "self-correction exhausted"
    /\ Cardinality(FencePositions(lastText)) = 2
    /\ JSONParse(Cleaned(lastText)).ok

\* C38: for every maxRetries the call accepts, it ends by returning, by
\* throwing 'self-correction exhausted' or by propagating a generator error;
\* the 'unreachable' error after the loop is never thrown.
C38_UnreachableNeverThrown ==
    pc = GuardPc
        => /\ error.kind # "unreachable"
           /\ phase = "thrown"
                => error.kind \in {"self-correction exhausted", "generator error"}

\* C38 for the budgets that are not negative.
C38_UnreachableNeverThrownFromZero ==
    (pc = GuardPc /\ maxRetries >= 0)
        => /\ error.kind # "unreachable"
           /\ phase = "thrown"
                => error.kind \in {"self-correction exhausted", "generator error"}

\* The callers of the store that obtained a handle for a collection name.
HandleHolders(name) ==
    {c \in Callers : pending[c].name = name /\ pending[c].handle # Nil
                        /\ pending[c].pc \in {"using", "returned"}}

\* C39: for each collection name the store calls client.getOrCreateCollection
\* at most once, also with several calls in flight for a name not yet cached,
\* and all callers use the same cached handle.
C39_OneClientCallPerCollection ==
    pc = "chromaStore"
        => \A name \in CollectionNames :
              /\ memory.clientCalls[name] <= 1
              /\ \A c \in HandleHolders(name) : pending[c].handle = memory.colCache[name]

\* C39 for a call that starts when the handle is cached: no client call is
\* made and the cached handle is used.
C39_CachedHandleReused ==
    [][\A c \in Callers, op \in StoreOps \ {"upsertNothing"}, name \in CollectionNames :
          (StoreCallStarts(c, op, name) /\ memory.colCache[name] # Nil)
              => /\ memory'.clientCalls = memory.clientCalls
                 /\ pending'[c].handle = memory.colCache[name]]_vars

====
